---- MODULE Spec2Model ----
(***************************************************************************)
(* A model of the resilient data-access layer of llama_inspector:          *)
(*   - the TTL cache            (src/src/utils/cache.py)                   *)
(*   - the price feed aggregator (src/src/price_feeds/aggregator.py)       *)
(*   - the rate limiter and retry_forever (src/src/utils/rate_limiter.py)  *)
(*   - the RPC endpoint rotation (src/src/utils/contract_queries.py)       *)
(*   - loan discovery (src/src/contracts/vault.py, contract_queries.py)    *)
(*   - batched contract calls (src/src/contracts/helpers.py,               *)
(*     provider_pool.py)                                                   *)
(* Each component has its own specification (SpecCache, SpecAgg, ...); the *)
(* variables of the other components stay at their initial values.         *)
(***************************************************************************)
EXTENDS Integers, Sequences, FiniteSets, TLC

(***************************************************************************)
(* Bounds of the model.                                                    *)
(***************************************************************************)
\* time.time() is modelled in whole ticks StartTime..MaxTime
MaxTime == 3
\* the largest ttl handed to Cache.set
MaxTTL == 1
\* the number of Cache.set calls in one run
MaxSets == 2
\* the number of process crashes in one run
MaxCrashes == 1
\* the event loop's clock runs 0..MaxLoopTime ticks
MaxLoopTime == 8
\* ticks in one RateLimiter.min_interval (the resolution of the loop's clock)
TicksPerInterval == 2
\* the number of RateLimiter.wait calls in one run
MaxWaitCalls == 6
\* the longest one invocation of a retried function takes, in seconds
MaxDur == 3
\* the most an asyncio.sleep overruns its delay, in seconds
MaxSleepLate == 1
\* the slack a caller grants beyond the timeout, in seconds
Epsilon == 1
\* the number of RPC endpoints of the model (the code lists ten)
NumEndpoints == 2
\* the minutes the endpoint model runs for
MaxEpTime == 7
\* _handle_rate_limit is not called on an endpoint that has this many errors
MaxErrorCount == 4
\* the most calls in one batch
MaxCalls == 5
\* the longest one attempt of a batch takes, in seconds
MaxBatchDur == 2
\* the most valid loan addresses a controller has
MaxLoans == 25
\* the most endpoints in the rpc_configs of a pool
MaxConfigured == 4
\* the most get_provider calls on one pool while no endpoint is disabled
MaxGets == 45
\* the most calls in one batch_call_contract call
MaxPoolCalls == 2
\* the most indices of a vault that hold a loan or revert
MaxChain == 3
\* the largest max_consecutive_errors of a configuration
MaxThreshold == 3
\* the most calls of one batch read
MaxGroupCalls == 6
\* the hours the loan and token caches are followed for
MaxHours == 6
MaxPriceHours == 26
\* the worker threads of get_multiple_token_prices
NumPriceThreads == 2
\* the most updates of an in-memory cache between two loads
MaxUpdates == 3
\* batch_size of the batch read
GroupSize == 3

\* time.time() is seconds since the epoch: never 0, so an expiration of 0
\* is free to mean "no expiration"
StartTime == 1

VARIABLES
    \* ---- TTL cache (one Cache instance over one cache file)
    now,         \* time.time()
    alive,       \* a Cache instance exists (constructed, process not crashed)
    data,        \* Cache.data: key -> <<value, expiration>>
    file,        \* the cache file on disk
    tmp,         \* the .tmp file beside it
    cpc,         \* position inside _save: "idle", "open", "write", "replace"
    lastGet,     \* what the last Cache.get returned (observation)
    setInfo,     \* per key, the last Cache.set of this instance (observation)
    saveOld,     \* the cache file when the running _save began (observation)
    saveNew,     \* the document the running _save writes (observation)
    inSave,      \* a _save is running, or the process crashed inside one
    loadedBad,   \* this instance was constructed over a corrupt/unreadable file
    ctorRaised,  \* Cache.__init__ raised
    written,     \* keys set since this instance was constructed
    reloadPrev,  \* Cache.data of the previous instance at a reload
    nsets,       \* Cache.set calls so far
    ncrash,      \* crashes so far
    \* ---- PriceFeedAggregator over its price cache
    priceCache,  \* the aggregator's Cache, shared with its feeds: token -> price
    apc,         \* position inside get_price: "idle", "loop", "done"
    atoken,      \* token_address of the running get_price
    ai,          \* position in self.price_feeds of the feed to consult next
    feedOutcome, \* what each feed's get_raw_price does for atoken
    consulted,   \* the feeds consulted by the running get_price, in order
    aresult,     \* what get_price returned
    amiss,       \* the running get_price missed the cache
    aknown,      \* an earlier get_price had returned a price for atoken
                 \* when the running get_price began
    areturned,   \* token -> the price get_price last returned for it
    \* ---- the price feeds called one after another on their shared Cache
    fcache,      \* the Cache the feeds were constructed with: token -> price
    forigin,     \* token -> the feed whose get_raw_price fetched the cached
                 \* price
    flast,       \* the last PriceFeed.get_price call: the feed, what it
                 \* returned, and the feed that had fetched that price
    \* ---- one run of LoanAnalyzer._get_vault_loans
    vlpc,        \* "idle", "loop", "done"
    vlmax,       \* max_errors
    vlchain,     \* what the vault answers for each index
    vlindex,     \* index
    vlerrors,    \* consecutive_errors
    vlyielded,   \* the indices whose loan was yielded
    vlrun,       \* the consecutive responses before this point that were
                 \* empty, zero-address or reverted
    vlreads,     \* the indices read, in the order of the reads
    \* ---- the loan-info or controller-token cache of ContractQueries
    lcnow,       \* time.time(), in hours
    lckind,      \* "loan" or "token"
    lcalive,     \* a ContractQueries exists
    lcmem,       \* _loan_info_cache / _token_info_cache: key -> the hour the
                 \* entry was fetched, Absent for no entry
    lcfile,      \* the cache file: its timestamp and its data
    lcserved,    \* the entry the last lookup returned from the cache
    \* ---- the threads of PriceFetcher.get_multiple_token_prices
    pfpc,        \* per thread: "idle", "open", "dump", "replace", "saved",
                 \* "failed"
    pfmem,       \* self.cache
    pffile,      \* price_cache.json
    pftmp,       \* price_cache.json.tmp
    pffd,        \* per thread: the file its open handle is on: "none",
                 \* "tmp", "file", "unlinked"
    \* ---- the lookups of one token through PriceFetcher.get_token_price
    plnow,       \* time.time(), in hours
    plcache,     \* self.cache, the entries of the token
    plfile,      \* price_cache.json, the entries of the token
    plfailedAt,  \* when the last lookup whose sources all failed was made
    plpricedAt,  \* when the last lookup that got a price from a source was
                 \* made
    plpriced,    \* the price that lookup returned
    pllast,      \* the last lookup: when, what it returned, whether it
                 \* invoked the sources, and plfailedAt and plpricedAt as
                 \* they were before it
    \* ---- the cache files of ContractQueries and PriceFetcher
    qsaver,      \* the saver at work: "loan", "token", "price"
    qalive,      \* the process runs and the owner of the cache is constructed
    qver,        \* the number of the last update of the in-memory cache
    qfile,       \* the cache file
    qtmp,        \* the temp file of _save_cache
    qpc,         \* per thread: "idle", "open", "write", "replace"
    qcrashes,    \* the crashes so far
    \* ---- the groups of calls of one batch read
    gmode,       \* "idle", "threads" (get_multiple_loan_info), "loop"
                 \* (batch_call_contract), "finished"
    gn,          \* the number of calls
    gcur,        \* the group being processed
    gstate,      \* per call: "todo", "running", "done"
    \* ---- one call of ContractHelper.call_contract_function
    hpc,         \* "idle", "running", "sleep", "returned"
    hkey,        \* cache_key, NoKey for none
    hcache,      \* contract_cache.data: key -> value, BNone for no entry
    hsaveFails,  \* Cache._save raises
    helapsed,    \* seconds since the wrapper's start_time
    hattempt,    \* the wrapper's attempt
    hresult,     \* what the call returned
    hlast,       \* the last run of the body: the cache entry before it, what
                 \* the pool's call returned in it, the steps it performed
    \* ---- RateLimiter shared by the tasks of one event loop
    ltime,        \* asyncio.get_event_loop().time(), in ticks
    last_request, \* RateLimiter.last_request
    lockHeld,     \* the task holding RateLimiter._lock, 0 when it is free
    loopBlocked,  \* the event loop's thread is blocked acquiring _lock
    lpc,          \* per task: "idle", "called", "sleeping", "blocked", "done"
    wake,         \* per task: when its asyncio.sleep is due
    completed,    \* the times at which wait() calls completed, in order
    ncalls,       \* wait() calls so far
    maxPending,   \* the most wait() calls that were pending at once
    \* ---- one call of a function wrapped by retry_forever
    rpc,          \* "idle", "call", "sleep", "returned"
    relapsed,     \* loop.time() - start_time, in seconds
    rattempt,     \* attempt
    rdelay,       \* the delay of the backoff sleep in progress
    rresult,      \* what the wrapper returned: "none" or "value"
    rinvocations, \* invocations of the wrapped function in this call
    rprev,        \* the delay of the previous backoff sleep of this call
    \* ---- the RPC endpoints of one ContractQueries
    etime,        \* datetime.now(), in minutes
    endpoints,    \* w3._rpc_endpoints: index -> RPCEndpoint
    provider,     \* the endpoint w3.provider points at, 0 for a URL not listed
    disabledAt,   \* index -> when mark_error last cleared is_active, or Never
    selected,     \* what the last _handle_rate_limit switched to (0: it
                  \* returned False after its third loop), and when
    streak,       \* index -> errors recorded since the last successful call
                  \* through the endpoint or its last reset_errors
    succeeded,    \* the endpoint the call of the last step succeeded through
    kpc,          \* _retry_with_backoff: "idle", "call", "handle", "sleep",
                  \* "returned", "raised"
    kattempt,     \* its local attempt
    kcalls,       \* invocations of func in this run
    krotations,   \* times _handle_rate_limit returned True in this run
    ksleeps,      \* the delays of its backoff sleeps, in seconds
    kseen,        \* how the invocations of func in this run ended: "ok",
                  \* "error", "ratelimit"
    \* ---- one call of ContractHelper.batch_call_contract_functions
    bpc,          \* "idle", "running", "sleep", "returned"
    bfuncs,       \* functions: what each call does when it is made
    bkeys,        \* cache_keys: the key of each call, or NoKey
    bcache,       \* contract_cache.data: key -> value, BNone for no entry
    bcache0,      \* contract_cache.data when the call began
    bsaveFails,   \* whether Cache._save raises during this call
    belapsed,     \* seconds since the retry_forever wrapper began
    battempt,     \* the wrapper's attempt
    bresult,      \* what the call returned
    \* ---- one run of loan-address discovery
    dpc,          \* "idle", "vault" (get_loan_addresses), "queries"
                  \* (get_loans), "returned"
    dnum,         \* the indexed read returns valid addresses below this index
    dfail,        \* the index at which the read fails, NoFailure for none
    di,           \* i of get_loan_addresses, index of get_loans
    daddresses,   \* addresses of get_loan_addresses, user_addresses of get_loans
    dcache,       \* contract_cache.data: key -> value, BNone for no entry
    dresult,      \* the addresses the discovery ended with
    \* ---- one Web3ProviderPool
    ppc,          \* "new", "probing" (in __init__), "ready", "failed"
    nconfigured,  \* len(rpc_configs); the endpoints are 1..nconfigured
    nprobed,      \* the configured endpoints __init__ has dealt with
    passed,       \* the endpoints whose probe connected
    provider_urls,        \* self.provider_urls (self.providers), in order
    disabled_providers,   \* self._disabled_providers
    current_provider,     \* self.current_provider
    requests_with_current,\* self._requests_with_current
    ngets,        \* get_provider calls since the construction while no
                  \* endpoint is disabled, 0 once one is
    last_returned,\* what the last get_provider call returned, 0 for None
    due,          \* the endpoint due next after disable_provider was called
                  \* on the endpoint last returned, 0 if none is due
    dueChecked,   \* due as it was when the last step's get_provider ran
    \* ---- one batch_call_contract call on the pool
    pcpc,         \* "idle", "running" (at the top of the while loop),
                  \* "sleeping" (in the backoff sleep), "returned"
    pccalls,      \* len(calls)
    pcelapsed,    \* loop time since start_time, in ticks of 0.2 s
    pcattempt,    \* attempt
    pcresults,    \* the list returned
    pcAllDisabled,\* whether every endpoint was disabled when the call began
    pc429         \* the endpoint used by the attempt in which a call failed
                  \* with an error holding "429", NoProvider if none did

cacheVars == <<now, alive, data, file, tmp, cpc, lastGet, setInfo, saveOld,
               saveNew, inSave, loadedBad, ctorRaised, written, reloadPrev,
               nsets, ncrash>>

aggVars == <<priceCache, apc, atoken, ai, feedOutcome, consulted, aresult,
             amiss, aknown, areturned>>

feedVars == <<fcache, forigin, flast>>

callVars == <<hpc, hkey, hcache, hsaveFails, helapsed, hattempt, hresult,
              hlast>>

lcVars == <<lcnow, lckind, lcalive, lcmem, lcfile, lcserved>>

pfVars == <<pfpc, pfmem, pffile, pftmp, pffd>>

plVars == <<plnow, plcache, plfile, plfailedAt, plpricedAt, plpriced, pllast>>

qsaveVars == <<qsaver, qalive, qver, qfile, qtmp, qpc, qcrashes>>

groupsVars == <<gmode, gn, gcur, gstate>>

loansVars == <<vlpc, vlmax, vlchain, vlindex, vlerrors, vlyielded, vlrun,
               vlreads>>

limVars == <<ltime, last_request, lockHeld, loopBlocked, lpc, wake, completed,
             ncalls, maxPending>>

retryVars == <<rpc, relapsed, rattempt, rdelay, rresult, rinvocations, rprev>>

backoffVars == <<kpc, kattempt, kcalls, krotations, ksleeps, kseen>>

epVars == <<etime, endpoints, provider, disabledAt, selected, streak,
            succeeded, backoffVars>>

batchVars == <<bpc, bfuncs, bkeys, bcache, bcache0, bsaveFails, belapsed,
               battempt, bresult>>

discVars == <<dpc, dnum, dfail, di, daddresses, dcache, dresult>>

poolVars == <<ppc, nconfigured, nprobed, passed, provider_urls,
              disabled_providers, current_provider, requests_with_current,
              ngets, last_returned, due, dueChecked, pcpc, pccalls,
              pcelapsed, pcattempt, pcresults, pcAllDisabled, pc429>>

vars == <<cacheVars, aggVars, limVars, retryVars, epVars, batchVars,
          discVars, poolVars, feedVars, loansVars, callVars, groupsVars,
          qsaveVars, lcVars, pfVars, plVars>>

\* what the operations of one component leave alone
CacheFrame ==
    UNCHANGED <<aggVars, limVars, retryVars, epVars, batchVars, discVars,
                poolVars, feedVars, loansVars, callVars, groupsVars,
                qsaveVars, lcVars, pfVars, plVars>>
AggFrame ==
    UNCHANGED <<cacheVars, limVars, retryVars, epVars, batchVars, discVars,
                poolVars, feedVars, loansVars, callVars, groupsVars,
                qsaveVars, lcVars, pfVars, plVars>>
LimFrame ==
    UNCHANGED <<cacheVars, aggVars, retryVars, epVars, batchVars, discVars,
                poolVars, feedVars, loansVars, callVars, groupsVars,
                qsaveVars, lcVars, pfVars, plVars>>
RetryFrame ==
    UNCHANGED <<cacheVars, aggVars, limVars, epVars, batchVars, discVars,
                poolVars, feedVars, loansVars, callVars, groupsVars,
                qsaveVars, lcVars, pfVars, plVars>>
EpFrame ==
    UNCHANGED <<cacheVars, aggVars, limVars, retryVars, batchVars, discVars,
                poolVars, feedVars, loansVars, callVars, groupsVars,
                qsaveVars, lcVars, pfVars, plVars>>
BatchFrame ==
    UNCHANGED <<cacheVars, aggVars, limVars, retryVars, epVars, discVars,
                poolVars, feedVars, loansVars, callVars, groupsVars,
                qsaveVars, lcVars, pfVars, plVars>>
DiscFrame ==
    UNCHANGED <<cacheVars, aggVars, limVars, retryVars, epVars, batchVars,
                poolVars, feedVars, loansVars, callVars, groupsVars,
                qsaveVars, lcVars, pfVars, plVars>>
PoolFrame ==
    UNCHANGED <<cacheVars, aggVars, limVars, retryVars, epVars, batchVars,
                discVars, feedVars, loansVars, callVars, groupsVars,
                qsaveVars, lcVars, pfVars, plVars>>
FeedFrame ==
    UNCHANGED <<cacheVars, aggVars, limVars, retryVars, epVars, batchVars,
                discVars, poolVars, loansVars, callVars, groupsVars,
                qsaveVars, lcVars, pfVars, plVars>>
LoansFrame ==
    UNCHANGED <<cacheVars, aggVars, limVars, retryVars, epVars, batchVars,
                discVars, poolVars, feedVars, callVars, groupsVars,
                qsaveVars, lcVars, pfVars, plVars>>
CallFrame ==
    UNCHANGED <<cacheVars, aggVars, limVars, retryVars, epVars, batchVars,
                discVars, poolVars, feedVars, loansVars, groupsVars,
                qsaveVars, lcVars, pfVars, plVars>>
GroupsFrame ==
    UNCHANGED <<cacheVars, aggVars, limVars, retryVars, epVars, batchVars,
                discVars, poolVars, feedVars, loansVars, callVars, qsaveVars,
                lcVars, pfVars, plVars>>
QSaveFrame ==
    UNCHANGED <<cacheVars, aggVars, limVars, retryVars, epVars, batchVars,
                discVars, poolVars, feedVars, loansVars, callVars,
                groupsVars, lcVars, pfVars, plVars>>
LcFrame ==
    UNCHANGED <<cacheVars, aggVars, limVars, retryVars, epVars, batchVars,
                discVars, poolVars, feedVars, loansVars, callVars,
                groupsVars, qsaveVars, pfVars, plVars>>
PfFrame ==
    UNCHANGED <<cacheVars, aggVars, limVars, retryVars, epVars, batchVars,
                discVars, poolVars, feedVars, loansVars, callVars,
                groupsVars, qsaveVars, lcVars, plVars>>
PlFrame ==
    UNCHANGED <<cacheVars, aggVars, limVars, retryVars, epVars, batchVars,
                discVars, poolVars, feedVars, loansVars, callVars,
                groupsVars, qsaveVars, lcVars, pfVars>>

(***************************************************************************)
(* Values.  A cached value is an int, a str or a Decimal; the payload x    *)
(* tells values of one type apart: DecV(1) is Decimal("1"), StrV(1) is "1".  *)
(***************************************************************************)
IntV(n) == [t |-> "int", x |-> n]
StrV(n) == [t |-> "str", x |-> n]
DecV(n) == [t |-> "dec", x |-> n]

Keys == {"k1", "k2"}
Values == {IntV(1), DecV(1)}
\* ttl = None
NoTTL == -1
TTLs == (0..MaxTTL) \cup {NoTTL}

EmptyMap == [k \in {} |-> <<IntV(0), 0>>]

\* DecimalEncoder.default: a Decimal is written as str(obj); json.load reads
\* a JSON string back as a str.
EncodeValue(v) == IF v.t = "dec" THEN StrV(v.x) ELSE v

\* json.dump(self.data): every (value, expiration) becomes [value, expiration]
EncodeDoc(d) == [k \in DOMAIN d |-> <<EncodeValue(d[k][1]), d[k][2]>>]

Missing    == [kind |-> "missing",    doc |-> EmptyMap]
Corrupt    == [kind |-> "corrupt",    doc |-> EmptyMap]
Unreadable == [kind |-> "unreadable", doc |-> EmptyMap]
\* a document cut short by a crash while it was written
Partial    == [kind |-> "partial",    doc |-> EmptyMap]
JsonFile(d) == [kind |-> "json", doc |-> d]

\* Cache.__init__, the dict comprehension: keep if no expiration or not expired
LoadFilter(raw, t) ==
    LET keep == {k \in DOMAIN raw : raw[k][2] = 0 \/ raw[k][2] > t}
    IN  [k \in keep |-> <<raw[k][1], raw[k][2]>>]

\* Cache.__init__ with try/except: any exception while loading leaves {}
LoadData(f, t) == IF f.kind = "json" THEN LoadFilter(f.doc, t) ELSE EmptyMap

LoadRaisesUncaught(f) == f.kind \in {"corrupt", "unreadable", "partial"}
\* Cache.__init__: "except Exception: self.data = {}", nothing propagates
LoadRaises(f) == FALSE

\* Cache.get's test for an expired entry
Expired(expiration, t) == expiration > 0 /\ t > expiration

\* Cache.set: expiration = time.time() + ttl if ttl is not None else 0
Expiration(ttl, t) == IF ttl # NoTTL THEN t + ttl ELSE 0

None == [some |-> FALSE, v |-> IntV(0)]
Some(v) == [some |-> TRUE, v |-> v]

NoGet == [key |-> "none", result |-> None]
NoReload == [valid |-> FALSE, d |-> EmptyMap]
NoSet == [k \in {} |-> [t0 |-> 0, ttl |-> 0, value |-> IntV(0)]]

\* the entries a cache file may hold before the program first runs
InitEntries == {<<IntV(1), 0>>, <<StrV(1), StartTime + 1>>}
InitDocs == UNION {[D -> InitEntries] : D \in SUBSET Keys}
InitFiles == {Missing, Corrupt, Unreadable} \cup {JsonFile(d) : d \in InitDocs}

CacheInitState ==
    /\ now = StartTime
    /\ alive = FALSE
    /\ data = EmptyMap
    /\ file \in InitFiles
    /\ tmp = Missing
    /\ cpc = "idle"
    /\ lastGet = NoGet
    /\ setInfo = NoSet
    /\ saveOld = Missing
    /\ saveNew = Missing
    /\ inSave = FALSE
    /\ loadedBad = FALSE
    /\ ctorRaised = FALSE
    /\ written = {}
    /\ reloadPrev = NoReload
    /\ nsets = 0
    /\ ncrash = 0

\* lastGet and reloadPrev hold what the step just taken observed
NoObservation ==
    /\ lastGet' = NoGet
    /\ reloadPrev' = NoReload

\* time passes (also while a save is running)
Tick ==
    /\ CacheFrame
    /\ now < MaxTime
    /\ now' = now + 1
    /\ NoObservation
    /\ UNCHANGED <<alive, data, file, tmp, cpc, setInfo, saveOld, saveNew,
                   inSave, loadedBad, ctorRaised, written, nsets, ncrash>>

\* Cache.__init__: self.data = {} and the load of an existing cache file
CacheInit ==
    /\ IF LoadRaises(file)
       THEN /\ ctorRaised' = TRUE
            /\ alive' = FALSE
            /\ data' = EmptyMap
            /\ loadedBad' = FALSE
       ELSE /\ alive' = TRUE
            /\ data' = LoadData(file, now)
            /\ loadedBad' = (file.kind \in {"corrupt", "unreadable", "partial"})
            /\ UNCHANGED ctorRaised
    /\ cpc' = "idle"
    /\ setInfo' = NoSet
    /\ written' = {}
    /\ saveOld' = Missing
    /\ saveNew' = Missing
    /\ inSave' = FALSE

\* Cache(cache_dir, filename) in a fresh process: the first start, or the
\* start after a crash
Construct ==
    /\ CacheFrame
    /\ ~alive
    /\ ~ctorRaised
    /\ CacheInit
    /\ NoObservation
    /\ UNCHANGED <<now, file, tmp, nsets, ncrash>>

\* a fresh Cache instance on the same directory and filename, constructed
\* while the writing instance is idle; the fresh instance takes its place
Reload ==
    /\ CacheFrame
    /\ alive
    /\ cpc = "idle"
    /\ CacheInit
    /\ lastGet' = NoGet
    /\ reloadPrev' = [valid |-> TRUE, d |-> data]
    /\ UNCHANGED <<now, file, tmp, nsets, ncrash>>

\* the start of _save, entered from set and from an evicting get
BeginSave(d) ==
    /\ cpc' = "open"
    /\ saveOld' = file
    /\ saveNew' = JsonFile(EncodeDoc(d))
    /\ inSave' = TRUE

\* Cache.set(key, value, ttl)
Set(k, v, ttl) ==
    /\ CacheFrame
    /\ alive
    /\ cpc = "idle"
    /\ nsets < MaxSets
    /\ nsets' = nsets + 1
    /\ data' = [x \in DOMAIN data \cup {k} |->
                  IF x = k THEN <<v, Expiration(ttl, now)>> ELSE data[x]]
    /\ BeginSave(data')
    /\ setInfo' = [x \in DOMAIN setInfo \cup {k} |->
                     IF x = k THEN [t0 |-> now, ttl |-> ttl, value |-> v]
                     ELSE setInfo[x]]
    /\ written' = written \cup {k}
    /\ NoObservation
    /\ UNCHANGED <<now, alive, file, tmp, loadedBad, ctorRaised, ncrash>>

\* Cache.get(key)
Get(k) ==
    /\ CacheFrame
    /\ alive
    /\ cpc = "idle"
    /\ IF k \notin DOMAIN data
       THEN /\ lastGet' = [key |-> k, result |-> None]
            /\ UNCHANGED <<data, cpc, saveOld, saveNew, inSave>>
       ELSE IF Expired(data[k][2], now)
            THEN /\ data' = [x \in DOMAIN data \ {k} |-> data[x]]
                 /\ BeginSave(data')
                 /\ lastGet' = [key |-> k, result |-> None]
            ELSE /\ lastGet' = [key |-> k, result |-> Some(data[k][1])]
                 /\ UNCHANGED <<data, cpc, saveOld, saveNew, inSave>>
    /\ reloadPrev' = NoReload
    /\ UNCHANGED <<now, alive, file, tmp, setInfo, loadedBad, ctorRaised,
                   written, nsets, ncrash>>

\* _save, open(tmp_file, 'w'): the temp file exists and is empty
SaveOpenInPlace ==
    /\ CacheFrame
    /\ alive
    /\ cpc = "open"
    /\ file' = Partial
    /\ cpc' = "write"
    /\ NoObservation
    /\ UNCHANGED <<now, alive, data, tmp, setInfo, saveOld, saveNew, inSave,
                   loadedBad, ctorRaised, written, nsets, ncrash>>
SaveOpen ==
    /\ CacheFrame
    /\ alive
    /\ cpc = "open"
    /\ tmp' = Partial
    /\ cpc' = "write"
    /\ NoObservation
    /\ UNCHANGED <<now, alive, data, file, setInfo, saveOld, saveNew, inSave,
                   loadedBad, ctorRaised, written, nsets, ncrash>>

\* _save, json.dump and the end of the with block: the temp file is complete
SaveWrite ==
    /\ CacheFrame
    /\ alive
    /\ cpc = "write"
    /\ tmp' = JsonFile(EncodeDoc(data))
    /\ cpc' = "replace"
    /\ NoObservation
    /\ UNCHANGED <<now, alive, data, file, setInfo, saveOld, saveNew, inSave,
                   loadedBad, ctorRaised, written, nsets, ncrash>>

\* _save, os.replace(tmp_file, self.cache_file): atomic
SaveReplace ==
    /\ CacheFrame
    /\ alive
    /\ cpc = "replace"
    /\ file' = tmp
    /\ tmp' = Missing
    /\ cpc' = "idle"
    /\ inSave' = FALSE
    /\ saveOld' = Missing
    /\ saveNew' = Missing
    /\ NoObservation
    /\ UNCHANGED <<now, alive, data, setInfo, loadedBad, ctorRaised, written,
                   nsets, ncrash>>

\* _save, the except clause: "if tmp_file.exists(): os.unlink(tmp_file)"
TmpKeptAfterFailure(t) == t
TmpAfterFailure(t) == Missing

\* _save, the except clause after the step at pc raised: the temp file is
\* removed and "raise e" hands the exception to the caller of _save
SaveFails(pc) ==
    /\ CacheFrame
    /\ alive
    /\ cpc = pc
    /\ tmp' = TmpAfterFailure(tmp)
    /\ cpc' = "raised"
    /\ NoObservation
    /\ UNCHANGED <<now, alive, data, file, setInfo, saveOld, saveNew, inSave,
                   loadedBad, ctorRaised, written, nsets, ncrash>>

\* open(tmp_file, 'w') raises
SaveOpenFails == SaveFails("open")
\* json.dump raises while the temp file is written
SaveWriteFails == SaveFails("write")
\* os.replace raises
SaveReplaceFails == SaveFails("replace")

\* the exception leaves set, or the evicting get, for its caller
SaveRaised ==
    /\ CacheFrame
    /\ alive
    /\ cpc = "raised"
    /\ cpc' = "idle"
    /\ inSave' = FALSE
    /\ saveOld' = Missing
    /\ saveNew' = Missing
    /\ NoObservation
    /\ UNCHANGED <<now, alive, data, file, tmp, setInfo, loadedBad,
                   ctorRaised, written, nsets, ncrash>>

\* the process dies, at any step; the files stay as they are
Crash ==
    /\ CacheFrame
    /\ alive
    /\ ncrash < MaxCrashes
    /\ ncrash' = ncrash + 1
    /\ alive' = FALSE
    /\ data' = EmptyMap
    /\ cpc' = "idle"
    /\ setInfo' = NoSet
    /\ written' = {}
    /\ NoObservation
    /\ UNCHANGED <<now, file, tmp, saveOld, saveNew, inSave, loadedBad,
                   ctorRaised, nsets>>

CacheNext ==
    \/ Tick
    \/ Construct
    \/ Reload
    \/ \E k \in Keys, v \in Values, ttl \in TTLs : Set(k, v, ttl)
    \/ \E k \in Keys : Get(k)
    \/ SaveOpen
    \/ SaveWrite
    \/ SaveReplace
    \/ Crash

\* the cache with saves whose steps may fail
CacheFaultNext ==
    \/ Construct
    \/ \E k \in Keys, v \in Values, ttl \in TTLs : Set(k, v, ttl)
    \/ SaveOpen
    \/ SaveWrite
    \/ SaveReplace
    \/ SaveOpenFails
    \/ SaveWriteFails
    \/ SaveReplaceFails
    \/ SaveRaised

(***************************************************************************)
(* Claims about the TTL cache, checked under SpecCache.                    *)
(***************************************************************************)

\* C1: a key written with set(key, value, ttl = T) at time t0 is returned by
\* get at every time t with t - t0 < T, and get returns None at every time t
\* with t - t0 >= T, the boundary t - t0 = T included.
C1_GetHonoursTTL ==
    (lastGet.key \in DOMAIN setInfo /\ setInfo[lastGet.key].ttl # NoTTL) =>
        LET s == setInfo[lastGet.key]
            elapsed == now - s.t0
        IN  /\ (elapsed < s.ttl => lastGet.result = Some(s.value))
            /\ (elapsed >= s.ttl => lastGet.result = None)

\* C8: a fresh instance constructed on the same file holds exactly the
\* entries of the writing instance that have not expired, with the same keys
\* and the same values.  (An entry whose expiration is the very instant of
\* the reload may be kept or dropped.)
C8_ReloadRoundTrip ==
    reloadPrev.valid =>
        LET old == reloadPrev.d
        IN  /\ \A k \in DOMAIN old :
                  (old[k][2] = 0 \/ old[k][2] > now) =>
                      (k \in DOMAIN data /\ data[k] = old[k])
            /\ \A k \in DOMAIN data :
                  k \in DOMAIN old /\ (old[k][2] = 0 \/ old[k][2] >= now)

\* C9: whenever the process stops inside _save, at any step, the cache file
\* is the complete document it was before the save or the complete new
\* document, and it is never a partially written document.
C9_CrashKeepsOldOrNew ==
    /\ file.kind # "partial"
    /\ inSave => (file = saveOld \/ file = saveNew)

\* C9, the case: the process crashed while the temp file was half written,
\* and the cache file still holds the previous state, which differs from
\* the state being saved.
C9_Witness ==
    /\ ~alive
    /\ inSave
    /\ tmp.kind = "partial"
    /\ file = saveOld
    /\ saveOld.kind = "json"
    /\ saveOld # saveNew

\* C10: constructing a Cache over a corrupt or unreadable file never raises;
\* the instance starts empty and then behaves as a cold cache: it holds
\* exactly what was set since, get of any other key returns None, and a
\* completed set leaves a well-formed file holding the map.
C10_CorruptFileStartsCold ==
    /\ ~ctorRaised
    /\ loadedBad =>
          /\ DOMAIN data \subseteq written
          /\ \A k \in DOMAIN data :
                data[k] = <<setInfo[k].value,
                            Expiration(setInfo[k].ttl, setInfo[k].t0)>>
          /\ (lastGet.key \in Keys \ written) => lastGet.result = None
          /\ (alive /\ cpc = "idle" /\ written # {}) =>
                file = JsonFile(EncodeDoc(data))

\* C31: whenever a save completes, which is when a set or an evicting get
\* returns normally, the cache file is a document that decodes to exactly
\* the in-memory map: the same keys, values and expiration times.
C31_FileDecodesToMemory ==
    [][(alive /\ cpc = "replace" /\ cpc' = "idle" /\ alive') =>
           (file'.kind = "json" /\ file'.doc = data')]_vars

\* C36: when a step of the save inside Cache.set fails, the exception
\* reaches the caller with the temp file removed and the cache file as it
\* was before the set.
C36_FailedSaveLeavesFile ==
    cpc = "raised" => (tmp = Missing /\ file = saveOld)

\* C36, the case: a set on a cache whose file holds a document failed in
\* its save, and the document it was writing differs from the file
C36_Witness ==
    /\ cpc = "raised"
    /\ inSave
    /\ file.kind = "json"
    /\ saveNew # file
    /\ data # EmptyMap

\* C10, the case: an instance constructed over a corrupt or unreadable file
\* took a set and completed its save.
C10_Witness ==
    /\ loadedBad
    /\ alive
    /\ cpc = "idle"
    /\ data # EmptyMap
    /\ file.kind = "json"

(***************************************************************************)
(* PriceFeedAggregator.get_price over its feeds (price_feeds/aggregator.py *)
(* and PriceFeed.get_price in price_feeds/base.py).                        *)
(***************************************************************************)
Tokens == {"t1", "t2"}
Prices == {-1, 0, 5, 7}

\* self.price_feeds holds three feeds: OneInch, Cowswap, CoinGecko
NumFeeds == 3
Feeds == 1..NumFeeds

\* what a feed's get_raw_price does: returns None, raises, or returns a price
ONone == [kind |-> "none", p |-> 0]
ORaise == [kind |-> "raise", p |-> 0]
OPrice(p) == [kind |-> "price", p |-> p]
Outcomes == {ONone, ORaise} \cup {OPrice(p) : p \in Prices}

PNone == [some |-> FALSE, p |-> 0]
PSome(p) == [some |-> TRUE, p |-> p]

EmptyPrices == [t \in {} |-> 0]

\* Cache.get on the price cache (entries are set without a ttl)
PriceCacheGet(c, tok) == IF tok \in DOMAIN c THEN PSome(c[tok]) ELSE PNone
\* the prices get_price returned so far, with p returned for tok
Returned(m, tok, p) ==
    [t \in DOMAIN m \cup {tok} |-> IF t = tok THEN p ELSE m[t]]

\* Cache.set(token_address, price)
PriceCacheSetDropped(c, tok, p) == c
PriceCacheSet(c, tok, p) ==
    [t \in DOMAIN c \cup {tok} |-> IF t = tok THEN p ELSE c[t]]

\* the test both get_price methods apply: price is not None and price > 0
AcceptedAnyPrice(r) == r.some
Accepted(r) == r.some /\ r.p > 0

\* PriceFeed.get_price: the cache first, then get_raw_price; a price that
\* is accepted is cached and returned, anything else (an exception too) is None
FeedGetPrice(c, tok, o) ==
    LET cached == PriceCacheGet(c, tok)
        raw == IF o.kind = "price" THEN PSome(o.p) ELSE PNone
    IN  IF cached.some THEN [ret |-> cached, cache |-> c]
        ELSE IF o.kind # "raise" /\ Accepted(raw)
             THEN [ret |-> raw, cache |-> PriceCacheSet(c, tok, raw.p)]
             ELSE [ret |-> PNone, cache |-> c]

\* get_price after the loop over the feeds: return None
AfterLoopDefault == PSome(1)
AfterLoop == PNone

\* the order in which get_price walks self.price_feeds
FeedOrderReversed == [i \in 1..NumFeeds |-> NumFeeds + 1 - i]
FeedOrder == [i \in 1..NumFeeds |-> i]

AggInitState ==
    /\ priceCache = EmptyPrices
    /\ apc = "idle"
    /\ atoken = "t1"
    /\ ai = 1
    /\ feedOutcome = [f \in Feeds |-> ONone]
    /\ consulted = <<>>
    /\ aresult = PNone
    /\ amiss = FALSE
    /\ aknown = FALSE
    /\ areturned = EmptyPrices

\* get_price(token_address): the cache check; env is what the three sources
\* would answer for this token during this call
AggStart(tok, env) ==
    /\ AggFrame
    /\ apc \in {"idle", "done"}
    /\ atoken' = tok
    /\ feedOutcome' = env
    /\ consulted' = <<>>
    /\ ai' = 1
    /\ aknown' = (tok \in DOMAIN areturned)
    /\ LET cached == PriceCacheGet(priceCache, tok)
       IN  IF cached.some
           THEN /\ apc' = "done"
                /\ aresult' = cached
                /\ amiss' = FALSE
                /\ areturned' = Returned(areturned, tok, cached.p)
           ELSE /\ apc' = "loop"
                /\ aresult' = PNone
                /\ amiss' = TRUE
                /\ UNCHANGED areturned
    /\ UNCHANGED priceCache

\* get_price, one turn of "for feed in self.price_feeds" (the return None
\* after the last feed included)
AggConsult ==
    /\ AggFrame
    /\ apc = "loop"
    /\ LET feed == FeedOrder[ai]
           r == FeedGetPrice(priceCache, atoken, feedOutcome[feed])
       IN  /\ consulted' = Append(consulted, feed)
           /\ IF Accepted(r.ret)
              THEN /\ priceCache' = PriceCacheSet(r.cache, atoken, r.ret.p)
                   /\ aresult' = r.ret
                   /\ areturned' = Returned(areturned, atoken, r.ret.p)
                   /\ apc' = "done"
                   /\ UNCHANGED ai
              ELSE /\ priceCache' = r.cache
                   /\ UNCHANGED areturned
                   /\ IF ai = NumFeeds
                      THEN /\ apc' = "done"
                           /\ aresult' = AfterLoop
                           /\ UNCHANGED ai
                      ELSE /\ apc' = "loop"
                           /\ aresult' = PNone
                           /\ ai' = ai + 1
    /\ UNCHANGED <<atoken, feedOutcome, amiss, aknown>>

AggNext ==
    \/ \E tok \in Tokens, env \in [Feeds -> Outcomes] : AggStart(tok, env)
    \/ AggConsult

\* a source succeeds when it returns a price that is accepted
Succeeds(o) == o.kind = "price" /\ o.p > 0

C21_MissReturnsPositiveOrNone ==
    (apc = "done" /\ amiss) =>
        /\ aresult.some => aresult.p > 0
        /\ \A k \in 1..Len(consulted) :
              Succeeds(feedOutcome[consulted[k]]) =>
                  (k = Len(consulted) /\ aresult.some)

\* C21, the case: the first source answers 0, the second -1, the third 7
C21_Witness ==
    /\ apc = "done"
    /\ amiss
    /\ feedOutcome[1] = OPrice(0)
    /\ feedOutcome[2] = OPrice(-1)
    /\ feedOutcome[3] = OPrice(7)
    /\ consulted = <<1, 2, 3>>
    /\ aresult = PSome(7)

\* C22: a get_price for a token for which an earlier get_price returned a
\* price p returns p from the cache and consults no source
C22_LaterCallsServedFromCache ==
    (apc # "idle" /\ aknown) =>
        /\ apc = "done"
        /\ ~amiss
        /\ consulted = <<>>
        /\ aresult = PSome(areturned[atoken])
        /\ priceCache[atoken] = areturned[atoken]

\* C22, the case: the sources would now answer 7, and 5 is returned again
C22_Witness ==
    /\ apc = "done"
    /\ aknown
    /\ feedOutcome[1] = OPrice(7)
    /\ aresult = PSome(5)
    /\ consulted = <<>>

\* C23: when no source succeeds, get_price returns None after it consulted
\* them all, and the cache holds no entry for the token
C23_ExhaustionReturnsNone ==
    (apc = "done" /\ amiss /\ \A f \in Feeds : ~Succeeds(feedOutcome[f])) =>
        /\ aresult = PNone
        /\ Len(consulted) = NumFeeds
        /\ atoken \notin DOMAIN priceCache

\* C23, the case: one source returns None, one a price of 0, one raises
C23_Witness ==
    /\ apc = "done"
    /\ amiss
    /\ feedOutcome[1] = ONone
    /\ feedOutcome[2] = OPrice(0)
    /\ feedOutcome[3] = ORaise
    /\ aresult = PNone
    /\ priceCache = EmptyPrices

(***************************************************************************)
(* RateLimiter.wait called by the tasks of one event loop                  *)
(* (utils/rate_limiter.py; the tasks are created in src/main.py).          *)
(***************************************************************************)
Tasks == {1, 2, 3}

\* requests_per_second (rate_limits.rpc_calls_per_second, default 2)
RPS == 2
\* one second, in ticks: min_interval = 1.0 / requests_per_second
TicksPerSecond == RPS * TicksPerInterval
MinInterval == TicksPerSecond \div RPS

\* wait: await asyncio.sleep(self.min_interval - elapsed)
SleepTimeNone(elapsed) == 0
SleepTime(elapsed) == MinInterval - elapsed

\* the loop's clock is monotonic from an arbitrary origin: the first call
\* may find elapsed below min_interval or not
LimInitState ==
    /\ ltime \in {0, MinInterval}
    /\ last_request = 0
    /\ lockHeld = 0
    /\ loopBlocked = FALSE
    /\ lpc = [t \in Tasks |-> "idle"]
    /\ wake = [t \in Tasks |-> 0]
    /\ completed = <<>>
    /\ ncalls = 0
    /\ maxPending = 0

Pending(pcs) == {t \in Tasks : pcs[t] \in {"called", "sleeping", "blocked"}}

\* the loop's clock advances; the loop runs every ready task before it waits
\* for a timer, unless its thread is blocked
LimTick ==
    /\ LimFrame
    /\ ltime < MaxLoopTime
    /\ loopBlocked \/ \A t \in Tasks : lpc[t] # "called"
    /\ ltime' = ltime + 1
    /\ UNCHANGED <<last_request, lockHeld, loopBlocked, lpc, wake, completed,
                   ncalls, maxPending>>

\* a task calls rate_limiter.wait(): the coroutine is ready to run
LimCall(t) ==
    /\ LimFrame
    /\ ~loopBlocked
    /\ lpc[t] \in {"idle", "done"}
    /\ ncalls < MaxWaitCalls
    /\ ncalls' = ncalls + 1
    /\ lpc' = [lpc EXCEPT ![t] = "called"]
    /\ maxPending' = IF Cardinality(Pending(lpc')) > maxPending
                     THEN Cardinality(Pending(lpc')) ELSE maxPending
    /\ UNCHANGED <<ltime, last_request, lockHeld, loopBlocked, wake, completed>>

\* wait() runs up to its first suspension: "with self._lock" (a
\* threading.Lock: if a suspended task holds it, the thread blocks), then
\* either the sleep or, with no sleep needed, the whole body
LimEnter(t) ==
    /\ LimFrame
    /\ ~loopBlocked
    /\ lpc[t] = "called"
    /\ IF lockHeld # 0
       THEN /\ loopBlocked' = TRUE
            /\ lpc' = [lpc EXCEPT ![t] = "blocked"]
            /\ UNCHANGED <<last_request, lockHeld, wake, completed>>
       ELSE LET elapsed == ltime - last_request
            IN  IF elapsed < MinInterval
                THEN /\ lockHeld' = t
                     /\ lpc' = [lpc EXCEPT ![t] = "sleeping"]
                     /\ wake' = [wake EXCEPT ![t] = ltime + SleepTime(elapsed)]
                     /\ UNCHANGED <<last_request, loopBlocked, completed>>
                ELSE /\ last_request' = ltime
                     /\ completed' = Append(completed, ltime)
                     /\ lpc' = [lpc EXCEPT ![t] = "done"]
                     /\ UNCHANGED <<lockHeld, loopBlocked, wake>>
    /\ UNCHANGED <<ltime, ncalls, maxPending>>

\* the sleep is over (not before it is due): last_request is set, the lock
\* is released, wait() returns
LimWake(t) ==
    /\ LimFrame
    /\ ~loopBlocked
    /\ lpc[t] = "sleeping"
    /\ ltime >= wake[t]
    /\ last_request' = ltime
    /\ lockHeld' = 0
    /\ completed' = Append(completed, ltime)
    /\ lpc' = [lpc EXCEPT ![t] = "done"]
    /\ UNCHANGED <<ltime, loopBlocked, wake, ncalls, maxPending>>

LimNext ==
    \/ LimTick
    \/ \E t \in Tasks : LimCall(t)
    \/ \E t \in Tasks : LimEnter(t)
    \/ \E t \in Tasks : LimWake(t)

\* C3: with requests_per_second = k, no more than k wait() calls complete
\* within any window of one second, however many callers are pending.
C3_AtMostKPerSecond ==
    \A i \in 1..Len(completed) :
        Cardinality({j \in 1..Len(completed) :
                        /\ completed[i] <= completed[j]
                        /\ completed[j] < completed[i] + TicksPerSecond}) <= RPS

\* C3, the case: more than k callers were pending at once, and more than k
\* calls have completed.
C3_Witness ==
    /\ maxPending > RPS
    /\ Len(completed) > RPS

\* C11: a task that calls wait() while another task is suspended inside
\* wait() does not block: no caller is ever stuck acquiring the lock with the
\* loop's thread blocked, a state from which no wait() call can return.
C11_NoCallerBlocksLoop ==
    \A t \in Tasks : lpc[t] # "blocked"

(***************************************************************************)
(* retry_forever (utils/rate_limiter.py): one call of the wrapper around a *)
(* function whose invocations take 0..MaxDur seconds and succeed or raise. *)
(***************************************************************************)
\* REQUEST_TIMEOUT = 15
REQUEST_TIMEOUT == 15
\* the cap of the backoff: min(30, ...)
MaxBackoff == 30

RECURSIVE Pow2(_)
Pow2(n) == IF n = 0 THEN 1 ELSE 2 * Pow2(n - 1)

\* delay = min(30, 1 * (2 ** attempt))
BackoffLinear(attempt) == attempt + 1
BackoffDelay(attempt) ==
    IF Pow2(attempt) < MaxBackoff THEN Pow2(attempt) ELSE MaxBackoff

\* what the wrapper does with the last error once the timeout is reached:
\* return None
OnTimeoutRaise == "raised"
OnTimeout == "none"

RetryInitState ==
    /\ rpc = "idle"
    /\ rprev = 0
    /\ relapsed = 0
    /\ rattempt = 0
    /\ rdelay = 0
    /\ rresult = "none"
    /\ rinvocations = 0

\* wrapper: start_time = loop.time(); attempt = 0
RetryStart ==
    /\ RetryFrame
    /\ rpc \in {"idle", "returned"}
    /\ rpc' = "call"
    /\ relapsed' = 0
    /\ rattempt' = 0
    /\ rdelay' = 0
    /\ rresult' = "none"
    /\ rinvocations' = 0
    /\ rprev' = 0

\* wrapper: return await func(...), which takes d seconds and returns
RetryInvokeOk(d) ==
    /\ RetryFrame
    /\ rpc = "call"
    /\ relapsed' = relapsed + d
    /\ rinvocations' = rinvocations + 1
    /\ rpc' = "returned"
    /\ rresult' = "value"
    /\ UNCHANGED <<rattempt, rdelay, rprev>>

\* wrapper: await func(...) takes d seconds and raises; the except branch up
\* to the return None or to the start of the backoff sleep
RetryInvokeFail(d) ==
    /\ RetryFrame
    /\ rpc = "call"
    /\ relapsed' = relapsed + d
    /\ rinvocations' = rinvocations + 1
    /\ IF relapsed' >= REQUEST_TIMEOUT
       THEN /\ rpc' = "returned"
            /\ rresult' = OnTimeout
            /\ UNCHANGED rdelay
       ELSE /\ rpc' = "sleep"
            /\ rdelay' = BackoffDelay(rattempt)
            /\ UNCHANGED rresult
    /\ UNCHANGED <<rattempt, rprev>>

\* wrapper: await asyncio.sleep(delay) returns, late seconds after it is
\* due; attempt += 1
RetrySleep(late) ==
    /\ RetryFrame
    /\ rpc = "sleep"
    /\ relapsed' = relapsed + rdelay + late
    /\ rattempt' = rattempt + 1
    /\ rpc' = "call"
    /\ rprev' = rdelay
    /\ UNCHANGED <<rdelay, rresult, rinvocations>>

RetryNext ==
    \/ RetryStart
    \/ \E d \in 0..MaxDur : RetryInvokeOk(d)
    \/ \E d \in 0..MaxDur : RetryInvokeFail(d)
    \/ \E late \in 0..MaxSleepLate : RetrySleep(late)

\* C5: a wrapped operation that fails on every invocation makes the wrapper
\* return None no later than timeout + epsilon seconds after the call began,
\* whatever the invocations and the sleeps took.
C5_ReturnsWithinTimeout ==
    (rpc = "returned" /\ rresult = "none") =>
        relapsed <= REQUEST_TIMEOUT + Epsilon

\* C18: retry_forever never propagates an exception of the wrapped
\* operation: a call ends with a value or with None, and with None after a
\* failure only once the elapsed time has reached the timeout; before that
\* every failure is retried.
C18_NeverPropagates ==
    /\ rresult \in {"none", "value"}
    /\ (rpc = "returned" /\ rresult # "value")
           => (rresult = "none" /\ relapsed >= REQUEST_TIMEOUT)

\* C18, the case: an operation failed, was retried, failed again and the
\* wrapper returned None.
C18_Witness ==
    rpc = "returned" /\ rresult = "none" /\ rinvocations >= 2

\* C19: the delay before the n-th retry is min(30, 2^n): 1 s before the
\* first retry, then twice the previous delay, never less than the previous
\* delay and never more than 30 s.
C19_BackoffDoubles ==
    rpc = "sleep" =>
        /\ rdelay <= MaxBackoff
        /\ rattempt = 0 => rdelay = 1
        /\ rattempt > 0 =>
              /\ rdelay >= rprev
              /\ rdelay = 2 * rprev \/ rdelay = MaxBackoff

\* C19, the case: the sleep before the fourth invocation, 8 s after delays
\* of 1, 2 and 4 s.
C19_Witness ==
    rpc = "sleep" /\ rattempt = 3 /\ rdelay = 8 /\ rprev = 4

(***************************************************************************)
(* RPCEndpoint and ContractQueries._handle_rate_limit                      *)
(* (utils/contract_queries.py).  Time is in minutes.                       *)
(***************************************************************************)
\* cooldown_minutes: int = 5
Cooldown == 5
\* self.rate_limit_cooldown = 60, in minutes
RateLimitCooldown == 1
\* error_count >= 3
ErrorThreshold == 3
\* last_used = None
NeverUsed == -1
\* the endpoint has not been disabled
Never == -1

EndpointIds == 1..NumEndpoints

\* Web3.HTTPProvider(url) then w3.is_connected(): True, False, or an exception
Connectivity == {"up", "down", "raise"}

\* RPCEndpoint.__init__
NewEndpoint == [last_used |-> NeverUsed, is_active |-> TRUE, error_count |-> 0]

\* RPCEndpoint.can_use
CanUse(e, t) ==
    IF ~e.is_active \/ e.error_count >= ErrorThreshold THEN FALSE
    ELSE IF e.last_used = NeverUsed THEN TRUE
    ELSE t - e.last_used >= Cooldown

\* RPCEndpoint.mark_used
MarkUsed(e, t) == [e EXCEPT !.last_used = t]

\* RPCEndpoint.mark_error
MarkError(e) ==
    [e EXCEPT !.error_count = @ + 1,
              !.is_active = IF e.error_count + 1 >= ErrorThreshold
                            THEN FALSE ELSE @]

\* RPCEndpoint.reset_errors
ResetErrors(e) == [e EXCEPT !.error_count = 0, !.is_active = TRUE]

\* RPCEndpoint.check_cooldown: whether it returns True (and resets the errors)
CheckCooldown(e, t) ==
    /\ ~e.is_active
    /\ e.last_used # NeverUsed
    /\ t - e.last_used >= Cooldown

\* The state a run of _handle_rate_limit works on: the endpoints, the
\* provider, the endpoint it returned True for (0: none so far), and when
\* each endpoint was last disabled.
HState(eps, prov, dis, str) ==
    [eps |-> eps, prov |-> prov, ret |-> 0, dis |-> dis, streak |-> str]

\* endpoint.mark_error(...) on endpoint i at time t
MarkErrorAt(st, i, t) ==
    [st EXCEPT !.eps[i] = MarkError(@),
               !.streak[i] = @ + 1,
               !.dis[i] = IF st.eps[i].is_active /\ ~MarkError(st.eps[i]).is_active
                          THEN t ELSE @]

\* the first loop: mark the current endpoint as rate limited
MarkCurrent(st, t) ==
    IF st.prov \in EndpointIds THEN MarkErrorAt(st, st.prov, t) ELSE st

\* the body of both "try" blocks for endpoint i: switch the provider, test
\* the connection, mark_used and return True, or mark_error and continue
TrySwitch(st, i, c, t) ==
    LET sw == [st EXCEPT !.prov = i]
    IN  CASE c = "up" -> [sw EXCEPT !.eps[i] = MarkUsed(@, t), !.ret = i]
          [] c = "raise" -> MarkErrorAt(sw, i, t)
          [] c = "down" -> sw

\* the second loop, from endpoint i on: an endpoint other than the one that
\* was current at entry and that can_use()
RECURSIVE FindAvailable(_, _, _, _, _)
FindAvailable(i, st, current, conn, t) ==
    IF i > NumEndpoints \/ st.ret # 0 THEN st
    ELSE IF i # current /\ CanUse(st.eps[i], t)
         THEN FindAvailable(i + 1, TrySwitch(st, i, conn[i], t), current, conn, t)
         ELSE FindAvailable(i + 1, st, current, conn, t)

\* the third loop, from endpoint i on: an endpoint whose check_cooldown()
\* returns True
RECURSIVE AfterCooldown(_, _, _, _)
AfterCooldown(i, st, conn, t) ==
    IF i > NumEndpoints \/ st.ret # 0 THEN st
    ELSE IF CheckCooldown(st.eps[i], t)
         THEN AfterCooldown(i + 1,
                  TrySwitch([st EXCEPT !.eps[i] = ResetErrors(@), !.streak[i] = 0],
                            i, conn[i], t),
                  conn, t)
         ELSE AfterCooldown(i + 1, st, conn, t)

NoSelection == [ep |-> 0, at |-> 0]

EpInitState ==
    /\ etime = 0
    /\ endpoints = [i \in EndpointIds |-> NewEndpoint]
    /\ provider \in 0..NumEndpoints
    /\ disabledAt = [i \in EndpointIds |-> Never]
    /\ streak = [i \in EndpointIds |-> 0]
    /\ succeeded = 0
    /\ selected = NoSelection
    /\ kpc = "idle"
    /\ kattempt = 0
    /\ kcalls = 0
    /\ krotations = 0
    /\ ksleeps = <<>>
    /\ kseen = {}

\* a minute passes between two rate-limit errors
EpTick ==
    /\ EpFrame
    /\ etime < MaxEpTime
    /\ etime' = etime + 1
    /\ selected' = NoSelection
    /\ succeeded' = 0
    /\ UNCHANGED <<endpoints, provider, disabledAt, streak>>

\* _retry_with_backoff: func(...) returns through the current provider
EpCallSucceeds ==
    /\ EpFrame
    /\ provider \in EndpointIds
    /\ succeeded # provider \/ streak[provider] # 0
    /\ succeeded' = provider
    /\ streak' = [streak EXCEPT ![provider] = 0]
    /\ selected' = NoSelection
    /\ UNCHANGED <<etime, endpoints, provider, disabledAt>>

\* the handler may be called
HandlerCallable ==
    /\ etime + RateLimitCooldown <= MaxEpTime
    /\ \A i \in EndpointIds : endpoints[i].error_count < MaxErrorCount

\* the state of _handle_rate_limit after its first loop
Marked == MarkCurrent(HState(endpoints, provider, disabledAt, streak), etime)

\* the endpoints the second loop may try: the connection outcomes are drawn
\* for these
Available == {i \in EndpointIds : i # provider /\ CanUse(Marked.eps[i], etime)}

\* _handle_rate_limit up to the end of its second loop
BeforeSleep(conn) == FindAvailable(1, Marked, provider, conn, etime)

\* the endpoints the third loop may try, at time t
CooledDown(st, t) == {i \in EndpointIds : CheckCooldown(st.eps[i], t)}

\* _handle_rate_limit returns True from its second loop
HandleRateLimitSwitch(conn) ==
    /\ EpFrame
    /\ HandlerCallable
    /\ LET st == BeforeSleep(conn)
       IN  /\ st.ret # 0
           /\ endpoints' = st.eps
           /\ provider' = st.prov
           /\ disabledAt' = st.dis
           /\ streak' = st.streak
           /\ selected' = [ep |-> st.ret, at |-> etime]
    /\ succeeded' = 0
    /\ UNCHANGED etime

\* _handle_rate_limit finds no endpoint, sleeps rate_limit_cooldown and runs
\* its third loop
HandleRateLimitWait(conn) ==
    /\ EpFrame
    /\ HandlerCallable
    /\ BeforeSleep(conn).ret = 0
    /\ etime' = etime + RateLimitCooldown
    /\ \E conn2 \in [CooledDown(BeforeSleep(conn), etime') -> Connectivity] :
         LET st == AfterCooldown(1, BeforeSleep(conn), conn2, etime')
         IN  /\ endpoints' = st.eps
             /\ provider' = st.prov
             /\ disabledAt' = st.dis
             /\ streak' = st.streak
             /\ selected' = [ep |-> st.ret, at |-> etime']
    /\ succeeded' = 0

EpNext ==
    \/ EpTick /\ UNCHANGED backoffVars
    \/ EpCallSucceeds /\ UNCHANGED backoffVars
    \/ \E conn \in [Available -> Connectivity] :
          HandleRateLimitSwitch(conn) /\ UNCHANGED backoffVars
    \/ \E conn \in [Available -> Connectivity] :
          HandleRateLimitWait(conn) /\ UNCHANGED backoffVars

\* C4: an endpoint that was disabled by its third recorded error is not
\* selected by _handle_rate_limit before the cooldown has elapsed since then.
C4_DisabledNotSelectedInCooldown ==
    (selected.ep # 0 /\ disabledAt[selected.ep] # Never) =>
        selected.at - disabledAt[selected.ep] >= Cooldown

\* C12: an endpoint that was disabled is active again once its cooldown has
\* elapsed: when _handle_rate_limit has examined every endpoint in its third
\* loop and returns False, no endpoint disabled a cooldown or longer ago is
\* still disabled.
C12_DisabledReactivated ==
    (selected.ep = 0 /\ selected.at > 0) =>
        \A i \in EndpointIds :
            (disabledAt[i] # Never /\ selected.at - disabledAt[i] >= Cooldown)
                => endpoints[i].is_active

\* C13: a successful call through an endpoint resets its error count to 0,
\* so an endpoint is at the disabling threshold only with that many errors
\* since the last successful call through it.
C13_SuccessResetsErrors ==
    /\ succeeded # 0 => endpoints[succeeded].error_count = 0
    /\ \A i \in EndpointIds :
          endpoints[i].error_count >= ErrorThreshold
              => streak[i] >= ErrorThreshold

(***************************************************************************)
(* ContractQueries._retry_with_backoff (utils/contract_queries.py) over    *)
(* the endpoints above.  Backoff delays are in seconds and do not move the *)
(* minute clock; a call of func may take minutes.                          *)
(***************************************************************************)
\* self.max_retries = 3
MaxRetries == 3
\* self.retry_delay = 2
RetryDelay == 2

\* delay = self.retry_delay * (2 ** attempt)
QueriesDelayFromZero(a) == RetryDelay * Pow2(a - 1)
QueriesDelay(a) == RetryDelay * Pow2(a)

endpointVars == <<etime, endpoints, provider, disabledAt, selected, streak,
                  succeeded>>

\* _retry_with_backoff is called: attempt = 0
BackoffStart ==
    /\ EpFrame
    /\ kpc = "idle"
    /\ kpc' = "call"
    /\ kattempt' = 0
    /\ kcalls' = 0
    /\ krotations' = 0
    /\ ksleeps' = <<>>
    /\ kseen' = {}
    /\ UNCHANGED endpointVars

\* a minute passes while func(*args, **kwargs) runs
BackoffCallTakesTime ==
    /\ kpc = "call"
    /\ EpTick
    /\ UNCHANGED backoffVars

\* func returns: "return result"
BackoffCallReturns ==
    /\ EpFrame
    /\ kpc = "call"
    /\ kpc' = "returned"
    /\ kcalls' = kcalls + 1
    /\ kseen' = kseen \cup {"ok"}
    /\ UNCHANGED <<kattempt, krotations, ksleeps>>
    /\ UNCHANGED endpointVars

\* func raises an exception whose text names no rate limit: attempt += 1,
\* then a bare raise at max_retries or the backoff sleep
BackoffCallFails ==
    /\ EpFrame
    /\ kpc = "call"
    /\ kcalls' = kcalls + 1
    /\ kseen' = kseen \cup {"error"}
    /\ kattempt' = kattempt + 1
    /\ IF kattempt' >= MaxRetries
       THEN kpc' = "raised" /\ ksleeps' = ksleeps
       ELSE kpc' = "sleep" /\ ksleeps' = Append(ksleeps, QueriesDelay(kattempt'))
    /\ UNCHANGED krotations
    /\ UNCHANGED endpointVars

\* time.sleep(delay) returns and the loop invokes func again
BackoffSleep ==
    /\ EpFrame
    /\ kpc = "sleep"
    /\ kpc' = "call"
    /\ UNCHANGED <<kattempt, kcalls, krotations, ksleeps, kseen>>
    /\ UNCHANGED endpointVars

\* func raises an exception whose text has '429', 'rate', 'limit',
\* 'unauthorized' or '401': _handle_rate_limit is called
BackoffCallRateLimited ==
    /\ EpFrame
    /\ kpc = "call"
    /\ kpc' = "handle"
    /\ kcalls' = kcalls + 1
    /\ kseen' = kseen \cup {"ratelimit"}
    /\ UNCHANGED <<kattempt, krotations, ksleeps>>
    /\ UNCHANGED endpointVars

\* _handle_rate_limit returns True from its second loop: "continue", with
\* attempt as it was
BackoffRotate(conn) ==
    /\ kpc = "handle"
    /\ HandleRateLimitSwitch(conn)
    /\ kpc' = "call"
    /\ krotations' = krotations + 1
    /\ UNCHANGED <<kattempt, kcalls, ksleeps, kseen>>

\* _handle_rate_limit sleeps and runs its third loop: "continue" when it
\* returns True, a bare raise when it returns False
BackoffWait(conn) ==
    /\ kpc = "handle"
    /\ HandleRateLimitWait(conn)
    /\ IF selected'.ep # 0
       THEN kpc' = "call" /\ krotations' = krotations + 1
       ELSE kpc' = "raised" /\ krotations' = krotations
    /\ UNCHANGED <<kattempt, kcalls, ksleeps, kseen>>

BackoffNext ==
    \/ BackoffStart
    \/ BackoffCallTakesTime
    \/ BackoffCallReturns
    \/ BackoffCallFails
    \/ BackoffSleep
    \/ BackoffCallRateLimited
    \/ \E conn \in [Available -> Connectivity] : BackoffRotate(conn)
    \/ \E conn \in [Available -> Connectivity] : BackoffWait(conn)

\* C37: a run of _retry_with_backoff whose operation raised nothing but
\* errors that are not rate-limit errors ends by raising, after exactly
\* max_retries invocations with sleeps of retry_delay * 2^attempt between
\* them (4 s, then 8 s).
C37_ThreeAttemptsThenRaise ==
    (kpc \in {"returned", "raised"} /\ kseen = {"error"}) =>
        /\ kpc = "raised"
        /\ kcalls = MaxRetries
        /\ ksleeps = <<4, 8>>

\* C37, the case: the third failure of the operation has been raised
C37_Witness ==
    kpc = "raised" /\ kseen = {"error"} /\ kattempt = MaxRetries

\* C38: while the operation raises nothing but rate-limit errors, one run of
\* _retry_with_backoff rotates the endpoint at most as many times as there
\* are endpoints.
C38_RotationsBounded ==
    kseen \subseteq {"ratelimit"} => krotations <= NumEndpoints

(***************************************************************************)
(* ContractHelper.batch_call_contract_functions (contracts/helpers.py),    *)
(* with the retry_forever wrapper around it, the cache it reads and writes *)
(* and Web3ProviderPool.batch_call_contract below it.                      *)
(***************************************************************************)
\* None as the result of a call or of a cache lookup
BNone == 0
\* a cache_keys element that is None or empty
NoKey == 0

\* what the i-th call returns when it succeeds, and what the cache holds for
\* it when it holds something
FreshValue(i) == 10 + i
CachedValue(i) == 20 + i

\* a contract function: calling it raises or returns value
Func(raises, value) == [raises |-> raises, value |-> value]

BatchKeys == 1..MaxCalls
EmptyContractCache == [k \in BatchKeys |-> BNone]

\* contract_cache.get(key) for an entry that never expires
ContractCacheGet(c, key) == c[key]

\* the cache check: the result list before the batch call
CheckCache(funcs, keys, c) ==
    [i \in 1..Len(funcs) |->
        IF keys[i] # NoKey THEN ContractCacheGet(c, keys[i]) ELSE BNone]

\* uncached_indices, in increasing order, from position i on
RECURSIVE UncachedIndices(_, _)
UncachedIndices(checked, i) ==
    IF i > Len(checked) THEN <<>>
    ELSE IF checked[i] = BNone
         THEN <<i>> \o UncachedIndices(checked, i + 1)
         ELSE UncachedIndices(checked, i + 1)

\* Web3ProviderPool.batch_call_contract: each call in its own try, None for
\* a call that raises
PoolBatchCall(calls) ==
    [j \in 1..Len(calls) |-> IF calls[j].raises THEN BNone ELSE calls[j].value]

\* the update loop from its j-th step on: results[idx] = result, and
\* contract_cache.set(key, result), which stores the entry and then raises
\* if _save fails
RECURSIVE UpdateResults(_, _, _, _, _, _)
UpdateResults(st, j, batch, indices, keys, saveFails) ==
    IF j > Len(indices) \/ st.raised THEN st
    ELSE LET idx == indices[j]
             result == batch[j]
             st1 == [st EXCEPT !.results[idx] = result]
         IN  IF keys[idx] # NoKey /\ result # BNone
             THEN UpdateResults(
                      [st1 EXCEPT !.cache[keys[idx]] = result,
                                  !.raised = saveFails],
                      j + 1, batch, indices, keys, saveFails)
             ELSE UpdateResults(st1, j + 1, batch, indices, keys, saveFails)

\* one run of the body of batch_call_contract_functions
BatchBody(funcs, keys, c, saveFails) ==
    LET checked == CheckCache(funcs, keys, c)
        indices == UncachedIndices(checked, 1)
        batch == PoolBatchCall([j \in 1..Len(indices) |-> funcs[indices[j]]])
    IN  UpdateResults([results |-> checked, cache |-> c, raised |-> FALSE],
                      1, batch, indices, keys, saveFails)

BNoResult == [kind |-> "pending", val |-> <<>>]
BReturnedNone == [kind |-> "none", val |-> <<>>]
BReturnedList(l) == [kind |-> "list", val |-> l]

BatchInitState ==
    /\ bpc = "idle"
    /\ bfuncs = <<>>
    /\ bkeys = <<>>
    /\ bcache = EmptyContractCache
    /\ bcache0 = EmptyContractCache
    /\ bsaveFails = FALSE
    /\ belapsed = 0
    /\ battempt = 0
    /\ bresult = BNoResult

\* a caller calls batch_call_contract_functions(functions, cache_keys) with
\* one key or None per function; the cache holds entries for the keys in
\* cached
BatchStart(n, raising, keyed, cached, saveFails) ==
    /\ BatchFrame
    /\ bpc = "idle"
    /\ cached \subseteq keyed
    /\ bpc' = "running"
    /\ bfuncs' = [i \in 1..n |-> Func(i \in raising, FreshValue(i))]
    /\ bkeys' = [i \in 1..n |-> IF i \in keyed THEN i ELSE NoKey]
    /\ bcache' = [k \in BatchKeys |->
                     IF k \in cached THEN CachedValue(k) ELSE BNone]
    /\ bcache0' = bcache'
    /\ bsaveFails' = saveFails
    /\ belapsed' = 0
    /\ battempt' = 0
    /\ bresult' = BNoResult

\* wrapper: one await func(...) that takes d seconds: the body returns its
\* results, or raises and the wrapper returns None or starts a backoff sleep
BatchAttempt(d) ==
    /\ BatchFrame
    /\ bpc = "running"
    /\ LET st == BatchBody(bfuncs, bkeys, bcache, bsaveFails)
       IN  /\ bcache' = st.cache
           /\ belapsed' = belapsed + d
           /\ IF ~st.raised
              THEN /\ bpc' = "returned"
                   /\ bresult' = BReturnedList(st.results)
              ELSE IF belapsed' >= REQUEST_TIMEOUT
              THEN /\ bpc' = "returned"
                   /\ bresult' = BReturnedNone
              ELSE /\ bpc' = "sleep"
                   /\ UNCHANGED bresult
    /\ UNCHANGED <<bfuncs, bkeys, bcache0, bsaveFails, battempt>>

\* wrapper: await asyncio.sleep(delay); attempt += 1
BatchSleep ==
    /\ BatchFrame
    /\ bpc = "sleep"
    /\ belapsed' = belapsed + BackoffDelay(battempt)
    /\ battempt' = battempt + 1
    /\ bpc' = "running"
    /\ UNCHANGED <<bfuncs, bkeys, bcache, bcache0, bsaveFails, bresult>>

BatchNext ==
    \/ /\ bpc = "idle"
       /\ \E n \in 0..MaxCalls :
            \E raising \in SUBSET (1..n), keyed \in SUBSET (1..n) :
                \E cached \in SUBSET keyed, saveFails \in BOOLEAN :
                    BatchStart(n, raising, keyed, cached, saveFails)
    \/ \E d \in 1..MaxBatchDur : BatchAttempt(d)
    \/ BatchSleep

\* what position i of the result is to hold: the cached value of call i, or
\* None if the call raises, or else what the call returns
ExpectedResult(i) ==
    IF bkeys[i] # NoKey /\ bcache0[bkeys[i]] # BNone THEN bcache0[bkeys[i]]
    ELSE IF bfuncs[i].raises THEN BNone
    ELSE bfuncs[i].value

\* C7: batch_call_contract_functions returns a list as long as its input in
\* which position i holds the result of call i: the cached value, None for a
\* call that raised, the fetched value otherwise.
C7_BatchResultsInPlace ==
    bpc = "returned" =>
        /\ bresult.kind = "list"
        /\ Len(bresult.val) = Len(bfuncs)
        /\ \A i \in 1..Len(bfuncs) : bresult.val[i] = ExpectedResult(i)

(***************************************************************************)
(* Loan-address discovery: VaultManager.get_loan_addresses                 *)
(* (contracts/vault.py) and the address loop of ContractQueries.get_loans  *)
(* (utils/contract_queries.py), over an indexed read loans(j) that returns *)
(* a valid address for j < dnum and the zero address from dnum on, and     *)
(* whose call fails at the index dfail.                                    *)
(***************************************************************************)
\* batch_size = 20
BatchSize == 20
\* "0x0000000000000000000000000000000000000000"
ZeroAddress == 1

\* the valid address at index j
LoanAddress(j) == 100 + j

\* controller.functions.loans(j).call() when n addresses are valid
Loans(j, n) == IF j < n THEN LoanAddress(j) ELSE ZeroAddress

\* no index at which the read fails
NoFailure == -1

\* the cache key f"loan_address_{j}"
LoanKey(j) == j + 1

DiscKeys == 1..(MaxLoans + 2 * BatchSize)
EmptyDiscCache == [k \in DiscKeys |-> BNone]

\* not addr or addr == "0x0000000000000000000000000000000000000000"
EndOfLoans(addr) == addr = BNone \/ addr = ZeroAddress

\* the scan of batch_addresses from position p on: valid_addresses grows
\* until an address ends the loans
RECURSIVE ProcessBatch(_, _, _)
ProcessBatch(batch, p, valid) ==
    IF p > Len(batch) THEN [ended |-> FALSE, valid |-> valid]
    ELSE IF EndOfLoans(batch[p]) THEN [ended |-> TRUE, valid |-> valid]
    ELSE ProcessBatch(batch, p + 1, Append(valid, batch[p]))

DiscInitState ==
    /\ dpc = "idle"
    /\ dnum = 0
    /\ dfail = NoFailure
    /\ di = 0
    /\ daddresses = <<>>
    /\ dcache = EmptyDiscCache
    /\ dresult = <<>>

\* get_loan_addresses is called: addresses = [], i = 0
VaultDiscoverStart(n, f) ==
    /\ DiscFrame
    /\ dpc = "idle"
    /\ dpc' = "vault"
    /\ dnum' = n
    /\ dfail' = f
    /\ UNCHANGED <<di, daddresses, dcache, dresult>>

\* one pass of the while loop of get_loan_addresses: the batch call for the
\* indices i .. i + batch_size - 1 and the scan of what it returned
VaultDiscoverBatch ==
    /\ DiscFrame
    /\ dpc = "vault"
    /\ LET funcs == [p \in 1..BatchSize |->
                        Func(di + p - 1 = dfail, Loans(di + p - 1, dnum))]
           keys == [p \in 1..BatchSize |-> LoanKey(di + p - 1)]
           st == BatchBody(funcs, keys, dcache, FALSE)
           scan == ProcessBatch(st.results, 1, <<>>)
       IN  /\ dcache' = st.cache
           /\ IF scan.ended
              THEN \* return addresses
                   /\ dpc' = "returned"
                   /\ dresult' = daddresses
                   /\ UNCHANGED <<di, daddresses>>
              ELSE IF scan.valid = <<>>
              THEN \* break; return addresses
                   /\ dpc' = "returned"
                   /\ dresult' = daddresses
                   /\ UNCHANGED <<di, daddresses>>
              ELSE /\ daddresses' = daddresses \o scan.valid
                   /\ di' = di + BatchSize
                   /\ UNCHANGED <<dpc, dresult>>
    /\ UNCHANGED <<dnum, dfail>>

\* get_loans reaches its address loop: user_addresses = [], index = 0
QueriesDiscoverStart(n, f) ==
    /\ DiscFrame
    /\ dpc = "idle"
    /\ dpc' = "queries"
    /\ dnum' = n
    /\ dfail' = f
    /\ UNCHANGED <<di, daddresses, dcache, dresult>>

\* one pass of the address loop of get_loans: _retry_with_backoff raises
\* what the read raises, and the except clause breaks
QueriesDiscoverStep ==
    /\ DiscFrame
    /\ dpc = "queries"
    /\ LET user_address == Loans(di, dnum)
       IN  IF di = dfail \/ EndOfLoans(user_address)
           THEN /\ dpc' = "returned"
                /\ dresult' = daddresses
                /\ UNCHANGED <<di, daddresses>>
           ELSE /\ daddresses' = Append(daddresses, user_address)
                /\ di' = di + 1
                /\ UNCHANGED <<dpc, dresult>>
    /\ UNCHANGED <<dnum, dfail, dcache>>

\* the indices at which the read may fail
FailureIndices == {NoFailure} \cup 0..MaxLoans

DiscNext ==
    \/ \E n \in 0..MaxLoans, f \in FailureIndices : VaultDiscoverStart(n, f)
    \/ VaultDiscoverBatch
    \/ \E n \in 0..MaxLoans, f \in FailureIndices :
           QueriesDiscoverStart(n, f)
    \/ QueriesDiscoverStep

\* C6: when the indexed read returns valid addresses at the indices 0..4 and
\* the zero address from index 5 on, the discovery returns exactly those 5
\* addresses in index order.
C6_DiscoversFiveLoans ==
    (dpc = "returned" /\ dnum = 5 /\ dfail = NoFailure) =>
        dresult = [j \in 1..5 |-> LoanAddress(j - 1)]

\* C26: when a read fails during a discovery loop, the loop returns every
\* valid address read before the failure: the addresses at the indices below
\* the failing one, in index order.
C26_FailureKeepsAddresses ==
    (dpc = "returned" /\ dfail \in 0..dnum) =>
        dresult = [j \in 1..dfail |-> LoanAddress(j - 1)]

(***************************************************************************)
(* Web3ProviderPool (src/contracts/provider_pool.py): the construction    *)
(* that probes the configured endpoints, the rotation of get_provider and *)
(* disable_provider.  The configured endpoints are numbered 1, 2, ... in   *)
(* the order of rpc_configs, and an endpoint's number stands for its url.  *)
(***************************************************************************)
\* self.MAX_REQUESTS_PER_PROVIDER = 10
MAX_REQUESTS_PER_PROVIDER == 10
\* retries = 3: the connection tests of one endpoint
ProbeRetries == 3
\* get_provider returning None
NoProvider == 0

\* what the probe of one endpoint meets: whether Web3(HTTPProvider(url))
\* raises, and what each is_connected() answers (True, False, an exception)
ProbeOutcomes ==
    [init : {"ok", "raise"}, tries : [1..ProbeRetries -> Connectivity]]

\* for attempt in range(retries): connected as soon as one test answers
\* True; a False answer or an exception goes on to the next attempt
ConnectedFirstTry(tries) == tries[1] = "up"
Connected(tries) == \E a \in 1..ProbeRetries : tries[a] = "up"

\* the body of "for rpc in rpc_configs" for endpoint u: the url is appended
\* when the provider was built and a test connected
ProbeOne(urls, u, out) ==
    IF out.init = "ok" /\ Connected(out.tries) THEN Append(urls, u) ELSE urls

\* [url for url in self.provider_urls if url not in self._disabled_providers]
ActiveProvidersUnfiltered(urls, dis) == urls
ActiveProviders(urls, dis) == SelectSeq(urls, LAMBDA u : u \notin dis)

\* if self._requests_with_current >= self.MAX_REQUESTS_PER_PROVIDER
ShouldSwitchLate(requests) == requests > MAX_REQUESTS_PER_PROVIDER
ShouldSwitch(requests) == requests >= MAX_REQUESTS_PER_PROVIDER

\* the fields of the pool that get_provider and disable_provider work on
PoolState(urls, dis, cur, req) ==
    [urls |-> urls, disabled |-> dis, current |-> cur, requests |-> req]

\* get_provider: the pool after the call and the url returned
GetProvider(pool) ==
    LET active == ActiveProviders(pool.urls, pool.disabled)
    IN  IF active = <<>> THEN [pool |-> pool, ret |-> NoProvider]
        ELSE LET switch == ShouldSwitch(pool.requests)
                 cur == IF switch THEN (pool.current + 1) % Len(active)
                                  ELSE pool.current
                 req == IF switch THEN 0 ELSE pool.requests
             IN  [pool |-> [pool EXCEPT !.current = cur, !.requests = req + 1],
                  ret |-> active[(cur % Len(active)) + 1]]

\* disable_provider(url)
DisableProviderOnly(pool, u) ==
    IF u \notin pool.disabled
    THEN [pool EXCEPT !.disabled = {u}, !.requests = 0]
    ELSE pool
DisableProvider(pool, u) ==
    IF u \notin pool.disabled
    THEN [pool EXCEPT !.disabled = @ \cup {u}, !.requests = 0]
    ELSE pool

\* the position of endpoint u in the pool
PositionOf(urls, u) == CHOOSE i \in 1..Len(urls) : urls[i] = u

\* the first endpoint after u, in the cyclic configuration order of the pool,
\* that is not in dis; NoProvider if there is none
NextActiveAfter(urls, dis, u) ==
    LET n == Len(urls)
        at(k) == urls[((PositionOf(urls, u) - 1 + k) % n) + 1]
        ks == {k \in 1..(n - 1) : at(k) \notin dis}
    IN  IF ks = {} THEN NoProvider
        ELSE at(CHOOSE k \in ks : \A j \in ks : k <= j)

\* ngets after one more get_provider call: the calls are counted while no
\* endpoint of the pool is disabled, and the count is 0 from then on
CountGet(n, dis) == IF dis = {} THEN n + 1 ELSE 0

pcallVars == <<pcpc, pccalls, pcelapsed, pcattempt, pcresults, pcAllDisabled,
               pc429>>

\* Web3ProviderPool.__init__ before the loop over rpc_configs
PoolInitState ==
    /\ ppc = "new"
    /\ nconfigured = 0
    /\ nprobed = 0
    /\ passed = {}
    /\ provider_urls = <<>>
    /\ disabled_providers = {}
    /\ current_provider = 0
    /\ requests_with_current = 0
    /\ ngets = 0
    /\ last_returned = NoProvider
    /\ due = NoProvider
    /\ dueChecked = NoProvider
    /\ pcpc = "idle"
    /\ pccalls = 0
    /\ pcelapsed = 0
    /\ pcattempt = 0
    /\ pcresults = <<>>
    /\ pcAllDisabled = FALSE
    /\ pc429 = NoProvider

\* Web3ProviderPool(rpc_configs) is called with n configured endpoints
PoolNew(n) ==
    /\ PoolFrame
    /\ ppc = "new"
    /\ ppc' = "probing"
    /\ nconfigured' = n
    /\ UNCHANGED <<nprobed, passed, provider_urls, disabled_providers,
                   current_provider, requests_with_current, ngets,
                   last_returned, due, dueChecked, pcallVars>>

\* one round of "for rpc in rpc_configs"
PoolProbe(out) ==
    /\ PoolFrame
    /\ ppc = "probing"
    /\ nprobed < nconfigured
    /\ nprobed' = nprobed + 1
    /\ passed' = IF out.init = "ok" /\ "up" \in {out.tries[a] : a \in 1..3}
                 THEN passed \cup {nprobed'} ELSE passed
    /\ provider_urls' = ProbeOne(provider_urls, nprobed', out)
    /\ UNCHANGED <<ppc, nconfigured, disabled_providers, current_provider,
                   requests_with_current, ngets, last_returned, due,
                   dueChecked, pcallVars>>

\* the end of __init__: if not self.providers: raise Exception(...)
PoolConstructed ==
    /\ PoolFrame
    /\ ppc = "probing"
    /\ nprobed = nconfigured
    /\ ppc' = IF provider_urls = <<>> THEN "failed" ELSE "ready"
    /\ UNCHANGED <<nconfigured, nprobed, passed, provider_urls,
                   disabled_providers, current_provider,
                   requests_with_current, ngets, last_returned, due,
                   dueChecked, pcallVars>>

\* a caller calls get_provider()
PoolGet ==
    /\ PoolFrame
    /\ ppc = "ready"
    /\ disabled_providers = {} => ngets < MaxGets
    /\ LET r == GetProvider(PoolState(provider_urls, disabled_providers,
                                      current_provider, requests_with_current))
       IN  /\ current_provider' = r.pool.current
           /\ requests_with_current' = r.pool.requests
           /\ last_returned' = r.ret
    /\ ngets' = CountGet(ngets, disabled_providers)
    /\ dueChecked' = due
    /\ due' = NoProvider
    /\ UNCHANGED <<ppc, nconfigured, nprobed, passed, provider_urls,
                   disabled_providers, pcallVars>>

\* a caller calls disable_provider(u) for an endpoint of the pool
PoolDisable(u) ==
    /\ PoolFrame
    /\ ppc = "ready"
    /\ u \notin disabled_providers
    /\ LET p == DisableProvider(PoolState(provider_urls, disabled_providers,
                                          current_provider,
                                          requests_with_current), u)
       IN  /\ disabled_providers' = p.disabled
           /\ requests_with_current' = p.requests
    /\ due' = IF u = last_returned
              THEN NextActiveAfter(provider_urls, disabled_providers \cup {u}, u)
              ELSE NoProvider
    /\ dueChecked' = NoProvider
    /\ ngets' = 0
    /\ UNCHANGED <<ppc, nconfigured, nprobed, passed, provider_urls,
                   current_provider, last_returned, pcallVars>>

\* ---- batch_call_contract on the pool.  Loop time is counted in ticks of
\* 0.2 s, the shortest sleep of the method.
PoolTicksPerSecond == 5
\* await asyncio.sleep(1.0) before the calls of an attempt
BatchDelayTicks == 5
\* await asyncio.sleep(0.2) after each call
CallDelayTicks == 1
\* REQUEST_TIMEOUT = 300 inside batch_call_contract, in seconds
POOL_REQUEST_TIMEOUT == 300

\* what call.call() does: returns, raises, raises with "429" in the text
CallOutcomes == {"ok", "error", "error429"}
\* what an attempt meets outside the per-call handlers: nothing, an
\* exception whose text holds "429", another exception
AttemptFaults == {"none", "rate", "other"}

\* the value call i returns
PoolValue(i) == i

\* the for loop over calls: a call that raises leaves None at its position
CallResults(outs) ==
    [i \in DOMAIN outs |-> IF outs[i] = "ok" THEN PoolValue(i) ELSE BNone]

\* [None] * len(calls)
AllNone(n) == [i \in 1..n |-> BNone]

\* the loop time one attempt takes: sleep(1.0) and sleep(0.2) per call
AttemptTicks(n) == BatchDelayTicks + n * CallDelayTicks

\* batch_call_contract(calls) is called with n calls
PoolCallStart(n) ==
    /\ PoolFrame
    /\ ppc = "ready"
    /\ pcpc = "idle"
    /\ pcpc' = IF n = 0 THEN "returned" ELSE "running"
    /\ pccalls' = n
    /\ pcelapsed' = 0
    /\ pcattempt' = 0
    /\ pcresults' = <<>>
    /\ pcAllDisabled' =
           (ActiveProviders(provider_urls, disabled_providers) = <<>>)
    /\ pc429' = NoProvider
    /\ UNCHANGED <<ppc, nconfigured, nprobed, passed, provider_urls,
                   disabled_providers, current_provider,
                   requests_with_current, ngets, last_returned, due,
                   dueChecked>>

\* one round of the while loop up to its return, its continue or its backoff
\* sleep; a fault is raised after the last call of the attempt
PoolCallAttempt(outs, fault) ==
    /\ PoolFrame
    /\ ppc = "ready"
    /\ pcpc = "running"
    /\ disabled_providers = {} => ngets < MaxGets
    /\ LET r == GetProvider(PoolState(provider_urls, disabled_providers,
                                      current_provider, requests_with_current))
           elapsed == pcelapsed + AttemptTicks(pccalls)
           timedOut == elapsed >= POOL_REQUEST_TIMEOUT * PoolTicksPerSecond
           disables == r.ret # NoProvider /\ fault = "rate" /\ ~timedOut
           p == IF disables THEN DisableProvider(r.pool, r.ret) ELSE r.pool
       IN  /\ disabled_providers' = p.disabled
           /\ current_provider' = p.current
           /\ requests_with_current' = p.requests
           /\ last_returned' = r.ret
           /\ ngets' = IF disables THEN 0
                       ELSE CountGet(ngets, disabled_providers)
           /\ dueChecked' = due
           /\ due' = IF disables
                     THEN NextActiveAfter(provider_urls, p.disabled, r.ret)
                     ELSE NoProvider
           /\ IF r.ret = NoProvider
              THEN /\ pcpc' = "returned"
                   /\ pcresults' = AllNone(pccalls)
                   /\ UNCHANGED <<pcelapsed, pc429>>
              ELSE /\ pcelapsed' = elapsed
                   /\ pc429' = IF \E i \in DOMAIN outs : outs[i] = "error429"
                               THEN r.ret ELSE pc429
                   /\ IF fault = "none"
                      THEN pcpc' = "returned" /\ pcresults' = CallResults(outs)
                      ELSE IF timedOut
                      THEN pcpc' = "returned" /\ pcresults' = AllNone(pccalls)
                      ELSE IF fault = "rate"
                      THEN pcpc' = "running" /\ pcresults' = pcresults
                      ELSE pcpc' = "sleeping" /\ pcresults' = pcresults
    /\ UNCHANGED <<ppc, nconfigured, nprobed, passed, provider_urls, pccalls,
                   pcattempt, pcAllDisabled>>

\* delay = min(30, 1 * (2 ** attempt)); await asyncio.sleep(delay);
\* attempt += 1
PoolCallSleep ==
    /\ PoolFrame
    /\ pcpc = "sleeping"
    /\ pcpc' = "running"
    /\ pcelapsed' = pcelapsed + BackoffDelay(pcattempt) * PoolTicksPerSecond
    /\ pcattempt' = pcattempt + 1
    /\ UNCHANGED <<ppc, nconfigured, nprobed, passed, provider_urls,
                   disabled_providers, current_provider,
                   requests_with_current, ngets, last_returned, due,
                   dueChecked, pccalls, pcresults, pcAllDisabled, pc429>>

PoolNext ==
    \/ \E n \in 0..MaxConfigured : PoolNew(n)
    \/ ppc = "probing" /\ \E out \in ProbeOutcomes : PoolProbe(out)
    \/ PoolConstructed
    \/ PoolGet
    \/ ppc = "ready" /\ \E u \in passed : PoolDisable(u)

\* a pool that is constructed, has endpoints disabled by earlier callers and
\* then serves one batch_call_contract call of a caller that has the pool to
\* itself
PoolCallNext ==
    \/ \E n \in 0..MaxConfigured : PoolNew(n)
    \/ ppc = "probing" /\ \E out \in ProbeOutcomes : PoolProbe(out)
    \/ PoolConstructed
    \/ ppc = "ready" /\ pcpc = "idle" /\ \E u \in passed : PoolDisable(u)
    \/ \E n \in 0..MaxPoolCalls : PoolCallStart(n)
    \/ pcpc = "running" /\ \E outs \in [1..pccalls -> CallOutcomes] :
           \E fault \in AttemptFaults : PoolCallAttempt(outs, fault)
    \/ PoolCallSleep

\* the configured endpoints in s, in the order of the configuration
RECURSIVE InConfigOrder(_, _)
InConfigOrder(s, from) ==
    IF from > MaxConfigured + 1 THEN <<>>
    ELSE IF from \in s THEN <<from>> \o InConfigOrder(s, from + 1)
    ELSE InConfigOrder(s, from + 1)

\* C17: once the construction of a pool is over, every configured endpoint
\* was probed, the pool holds exactly the endpoints whose probe connected, in
\* the order of the configuration, and the construction raised exactly when
\* no endpoint connected
C17_PoolHoldsPassed ==
    ppc \in {"ready", "failed"} =>
        /\ nprobed = nconfigured
        /\ provider_urls = InConfigOrder(passed, 1)
        /\ (ppc = "failed") <=> (passed = {})

C17_Witness ==
    /\ ppc = "ready"
    /\ nconfigured = 4
    /\ passed = {2, 4}
    /\ provider_urls = <<2, 4>>

C15_DisableMovesToNext ==
    dueChecked # NoProvider => last_returned = dueChecked

\* C33: get_provider and disable_provider each run under the pool's lock,
\* so their calls from several threads take effect one at a time, in any
\* order.  A get_provider call never returns an endpoint that was in the
\* disabled set when the call ran, and it returns None exactly when every
\* endpoint of the pool is disabled.
C33_GetSkipsDisabled ==
    [][PoolGet =>
          /\ last_returned' \notin disabled_providers
          /\ (last_returned' = NoProvider) <=>
                 (\A i \in 1..Len(provider_urls) :
                      provider_urls[i] \in disabled_providers)]_vars

\* C33, the case: endpoints were disabled, and a get_provider call made
\* after the last disable returned one of the two that remain
C33_Witness ==
    /\ ppc = "ready"
    /\ Len(provider_urls) = 4
    /\ Cardinality(disabled_providers) = 2
    /\ requests_with_current = 1
    /\ last_returned # NoProvider
    /\ last_returned \notin disabled_providers

\* C34: once the pool is constructed, no step takes an endpoint out of the
\* disabled set, no step changes the list of providers, and no step makes
\* an endpoint that is in the disabled set the one get_provider returned.
C34_DisabledOnlyGrows ==
    [][ppc = "ready" =>
          /\ disabled_providers \subseteq disabled_providers'
          /\ provider_urls' = provider_urls
          /\ \A u \in disabled_providers :
                 last_returned' = u => last_returned = u]_vars

\* C34, the case: two of three endpoints were disabled, and the three
\* get_provider calls made since the last disable returned the third
C34_Witness ==
    /\ ppc = "ready"
    /\ Len(provider_urls) = 3
    /\ disabled_providers = {provider_urls[1], provider_urls[2]}
    /\ requests_with_current = 3
    /\ last_returned = provider_urls[3]

\* C35: when disable_provider disables an endpoint other than the one that
\* get_provider last returned and would return again, the next get_provider
\* call still returns that endpoint.
C35_DisableOtherKeepsSelection ==
    [][(/\ ppc = "ready"
        /\ disabled_providers' # disabled_providers
        /\ last_returned # NoProvider
        /\ last_returned \notin disabled_providers'
        /\ GetProvider(PoolState(provider_urls, disabled_providers,
                                 current_provider,
                                 requests_with_current)).ret = last_returned)
       => GetProvider(PoolState(provider_urls', disabled_providers',
                                current_provider',
                                requests_with_current')).ret = last_returned
      ]_vars

\* C16: a batch_call_contract call with at least one call, begun while every
\* endpoint of the pool is disabled, returns only after the caller was
\* blocked for some time
C16_AllDisabledBlocksCaller ==
    (pcpc = "returned" /\ pccalls > 0 /\ pcAllDisabled) => pcelapsed > 0

\* C20: the endpoint used by an attempt in which a contract call failed with
\* an error holding "429" is disabled by the pool
C20_RateLimitedCallDisables ==
    pc429 # NoProvider => pc429 \in disabled_providers

(***************************************************************************)
(* PriceFeed.get_price (price_feeds/base.py) of the feeds of one           *)
(* aggregator, called one after another.  The aggregator hands its Cache   *)
(* to every feed it constructs, and each feed reads and writes it under    *)
(* the key token_address.                                                  *)
(***************************************************************************)
\* no PriceFeed.get_price call yet
NoFeedCall == [feed |-> 0, ret |-> PNone, from |-> 0]

FeedInitState ==
    /\ fcache = EmptyPrices
    /\ forigin = EmptyPrices
    /\ flast = NoFeedCall

\* get_price of feed f is called for tok, and the feed's get_raw_price does o
FeedCall(f, tok, o) ==
    /\ FeedFrame
    /\ LET r == FeedGetPrice(fcache, tok, o)
       IN  /\ fcache' = r.cache
           /\ flast' = [feed |-> f, ret |-> r.ret,
                        from |-> IF ~r.ret.some THEN 0
                                 ELSE IF tok \in DOMAIN fcache
                                 THEN forigin[tok] ELSE f]
           /\ forigin' = IF tok \notin DOMAIN fcache /\ tok \in DOMAIN r.cache
                         THEN PriceCacheSet(forigin, tok, f)
                         ELSE forigin

FeedsNext ==
    \E f \in Feeds, tok \in Tokens, o \in Outcomes : FeedCall(f, tok, o)

\* C24: a price that a feed's get_price returns was fetched by that feed's
\* own get_raw_price
C24_FeedReturnsOwnPrice ==
    flast.ret.some => flast.from = flast.feed

(***************************************************************************)
(* LoanAnalyzer._get_vault_loans (main.py): the enumeration of a vault's   *)
(* loans by index, over the ContractQueries of utils/contract_queries.py.  *)
(***************************************************************************)
\* the methods class ContractQueries defines
QueriesMethods ==
    {"__init__", "_load_token_cache", "_save_token_cache", "_load_loan_cache",
     "_save_loan_cache", "_initialize_rpc_endpoints", "_load_abi",
     "_get_contract_instance", "_handle_rate_limit", "_retry_with_backoff",
     "_try_call_function", "get_token_info", "get_multiple_token_info",
     "get_admin_contract", "get_loan_info", "get_multiple_loan_info",
     "get_controller_tokens", "get_loans", "get_factory"}

\* self.queries.<name>: the attribute lookup raises AttributeError for a name
\* the class does not define
HasMethod(name) == name \in QueriesMethods

\* what vault.functions.loans(index).call answers
Responses ==
    {"valid", "empty", "zero", "execution reverted", "rate limit", "error"}
\* what get_loan_info_async does for a valid address: a loan, None, or an
\* exception with the given text
InfoOutcomes == {"loan", "none", "execution reverted", "rate limit", "error"}

\* the exceptions among the outcomes
IsException(r) ==
    r \in {"execution reverted", "rate limit", "error", "AttributeError"}

\* await self.queries._retry_with_backoff_async(vault.functions.loans(index).call)
ReadLoan(chain, index) ==
    IF ~HasMethod("_retry_with_backoff_async") THEN "AttributeError"
    ELSE IF index + 1 \in DOMAIN chain THEN chain[index + 1].read
    ELSE "empty"

\* await self.queries.get_loan_info_async(vault, user_address)
ReadLoanInfo(chain, index) ==
    IF ~HasMethod("get_loan_info_async") THEN "AttributeError"
    ELSE IF index + 1 \in DOMAIN chain THEN chain[index + 1].info
    ELSE "none"

\* one turn of the while loop from the state st = [index, errors, yielded,
\* run, stop]: the try block and the except clause
LoanTurn(st, chain, max_errors) ==
    LET r == ReadLoan(chain, st.index)
        info == IF r = "valid" THEN ReadLoanInfo(chain, st.index) ELSE "none"
        exc == IF IsException(r) THEN r
               ELSE IF r = "valid" /\ IsException(info) THEN info
               ELSE "no exception"
        afterRead ==
            IF r \in {"empty", "zero"}
            THEN [st EXCEPT !.errors = @ + 1, !.run = @ + 1]
            ELSE IF r = "valid"
            THEN [st EXCEPT !.errors = 0, !.run = 0]
            ELSE st
    IN  IF exc = "no exception"
        THEN [afterRead EXCEPT
                 !.yielded = IF r = "valid" /\ info = "loan"
                             THEN Append(@, st.index) ELSE @,
                 !.index = @ + 1]
        ELSE IF exc = "rate limit"
        THEN [afterRead EXCEPT !.stop = TRUE]
        ELSE IF exc = "execution reverted"
        THEN [afterRead EXCEPT
                 !.errors = @ + 1,
                 !.run = IF r = "valid" THEN @ ELSE @ + 1,
                 !.stop = (afterRead.errors + 1 >= max_errors)]
        ELSE [afterRead EXCEPT !.stop = TRUE]

LoansInitState ==
    /\ vlpc = "idle"
    /\ vlmax = 1
    /\ vlchain = <<>>
    /\ vlindex = 0
    /\ vlerrors = 0
    /\ vlyielded = <<>>
    /\ vlrun = 0
    /\ vlreads = <<>>

\* _get_vault_loans(vault) is called: index = 0, consecutive_errors = 0,
\* max_errors from the configuration
LoansStart(max_errors, chain) ==
    /\ LoansFrame
    /\ vlpc = "idle"
    /\ vlpc' = "loop"
    /\ vlmax' = max_errors
    /\ vlchain' = chain
    /\ vlindex' = 0
    /\ vlerrors' = 0
    /\ vlyielded' = <<>>
    /\ vlrun' = 0
    /\ vlreads' = <<>>

\* one turn of "while consecutive_errors < max_errors", or its exit
LoansTurn ==
    /\ LoansFrame
    /\ vlpc = "loop"
    /\ IF vlerrors >= vlmax
       THEN /\ vlpc' = "done"
            /\ UNCHANGED <<vlindex, vlerrors, vlyielded, vlrun, vlreads>>
       ELSE LET st == LoanTurn([index |-> vlindex, errors |-> vlerrors,
                                yielded |-> vlyielded, run |-> vlrun,
                                stop |-> FALSE], vlchain, vlmax)
            IN  /\ vlpc' = IF st.stop THEN "done" ELSE "loop"
                /\ vlindex' = st.index
                /\ vlerrors' = st.errors
                /\ vlyielded' = st.yielded
                /\ vlrun' = st.run
                /\ vlreads' = Append(vlreads, vlindex)
    /\ UNCHANGED <<vlmax, vlchain>>

\* the loans of a vault: what each index answers
Chains ==
    UNION {[1..n -> [read : {"valid", "empty", "zero", "execution reverted"},
                     info : {"loan"}]] : n \in 0..MaxChain}

LoansNext ==
    \/ vlpc = "idle" /\ \E m \in 1..MaxThreshold, chain \in Chains :
           LoansStart(m, chain)
    \/ LoansTurn

\* C25: the enumeration of a vault's loans ends only once the configured
\* number of consecutive responses were empty, zero-address or reverted, and
\* it reads the indices in increasing order
C25_StopsOnlyAfterThreshold ==
    /\ \A k \in 1..(Len(vlreads) - 1) : vlreads[k] <= vlreads[k + 1]
    /\ vlpc = "done" => vlrun >= vlmax

(***************************************************************************)
(* ContractHelper.call_contract_function (contracts/helpers.py) under      *)
(* retry_forever: the cache lookup, the rate limiter, the call through the *)
(* provider pool and the cache write of one attempt, in the order the body *)
(* performs them.                                                          *)
(***************************************************************************)
\* "if cache_key and result is not None"
ShouldCacheAlways(key, result) == key # NoKey
ShouldCache(key, result) == key # NoKey /\ result # BNone

\* the steps of the body after a cache miss
MissSteps == <<"rate_limiter.wait", "call_contract">>

\* one run of the body of call_contract_function on the cache c when
\* provider_pool.call_contract returns outcome: the steps it performed, the
\* cache it leaves, what it returns and whether contract_cache.set raised
CallBody(key, c, outcome, saveFails) ==
    LET cached == IF key # NoKey THEN ContractCacheGet(c, key) ELSE BNone
        lookup == IF key # NoKey THEN <<"contract_cache.get">> ELSE <<>>
    IN  IF key # NoKey /\ cached # BNone
        THEN [steps |-> lookup, cache |-> c, result |-> cached,
              raised |-> FALSE]
        ELSE IF ShouldCache(key, outcome)
        THEN [steps |-> lookup \o MissSteps \o <<"contract_cache.set">>,
              cache |-> [c EXCEPT ![key] = outcome], result |-> outcome,
              raised |-> saveFails]
        ELSE [steps |-> lookup \o MissSteps, cache |-> c, result |-> outcome,
              raised |-> FALSE]

NoAttempt == [before |-> BNone, outcome |-> BNone, steps |-> <<>>]

CallInitState ==
    /\ hpc = "idle"
    /\ hkey = NoKey
    /\ hcache = EmptyContractCache
    /\ hsaveFails = FALSE
    /\ helapsed = 0
    /\ hattempt = 0
    /\ hresult = BNone
    /\ hlast = NoAttempt

\* a caller calls call_contract_function(contract_function, cache_key)
CallStart(key, cached, saveFails) ==
    /\ CallFrame
    /\ hpc = "idle"
    /\ cached => key # NoKey
    /\ hpc' = "running"
    /\ hkey' = key
    /\ hcache' = [k \in BatchKeys |->
                     IF cached /\ k = key THEN CachedValue(k) ELSE BNone]
    /\ hsaveFails' = saveFails
    /\ helapsed' = 0
    /\ hattempt' = 0
    /\ hresult' = BNone
    /\ hlast' = NoAttempt

\* wrapper: one await func(...) that takes d seconds and in which
\* provider_pool.call_contract, if it is reached, returns outcome
CallAttempt(d, outcome) ==
    /\ CallFrame
    /\ hpc = "running"
    /\ LET st == CallBody(hkey, hcache, outcome, hsaveFails)
       IN  /\ hcache' = st.cache
           /\ helapsed' = helapsed + d
           /\ hlast' = [before |-> IF hkey # NoKey THEN hcache[hkey] ELSE BNone,
                        outcome |-> outcome, steps |-> st.steps]
           /\ IF ~st.raised
              THEN /\ hpc' = "returned"
                   /\ hresult' = st.result
              ELSE IF helapsed' >= REQUEST_TIMEOUT
              THEN /\ hpc' = "returned"
                   /\ hresult' = BNone
              ELSE /\ hpc' = "sleep"
                   /\ UNCHANGED hresult
    /\ UNCHANGED <<hkey, hsaveFails, hattempt>>

\* wrapper: await asyncio.sleep(delay); attempt += 1
CallSleep ==
    /\ CallFrame
    /\ hpc = "sleep"
    /\ helapsed' = helapsed + BackoffDelay(hattempt)
    /\ hattempt' = hattempt + 1
    /\ hpc' = "running"
    /\ UNCHANGED <<hkey, hcache, hsaveFails, hresult, hlast>>

CallNext ==
    \/ /\ hpc = "idle"
       /\ \E key \in {NoKey} \cup BatchKeys, cached, saveFails \in BOOLEAN :
            CallStart(key, cached, saveFails)
    \/ \E d \in 1..MaxBatchDur, outcome \in {BNone, FreshValue(1)} :
            CallAttempt(d, outcome)
    \/ CallSleep

\* the position of step s in the steps of an attempt, 0 if it was not performed
StepAt(steps, s) ==
    IF \E p \in 1..Len(steps) : steps[p] = s
    THEN CHOOSE p \in 1..Len(steps) : steps[p] = s
    ELSE 0

\* C27: an attempt of call_contract_function with a cache key looks the key
\* up first; on a hit it returns the cached value without a rate-limiter
\* slot or a call; on a miss it waits for the rate limiter before the call;
\* it writes to the cache only after the call, and only a result that is
\* not None.
C27_CacheLimiterCallWrite ==
    (hpc \in {"returned", "sleep"} /\ hkey # NoKey) =>
        LET get == StepAt(hlast.steps, "contract_cache.get")
            wait == StepAt(hlast.steps, "rate_limiter.wait")
            call == StepAt(hlast.steps, "call_contract")
            set == StepAt(hlast.steps, "contract_cache.set")
        IN  /\ get = 1
            /\ hlast.before # BNone =>
                  /\ wait = 0 /\ call = 0 /\ set = 0
                  /\ hpc = "returned" /\ hresult = hlast.before
            /\ hlast.before = BNone =>
                  /\ 1 < wait /\ wait < call
                  /\ (set # 0) = (hlast.outcome # BNone)
                  /\ set # 0 => (call < set /\ hcache[hkey] = hlast.outcome)
                  /\ set = 0 => hcache[hkey] = BNone

\* a miss that called through the limiter and cached the result, and a hit
C27_Witness ==
    /\ hpc = "returned"
    /\ hkey # NoKey
    /\ hlast.steps = <<"contract_cache.get", "rate_limiter.wait",
                       "call_contract", "contract_cache.set">>
    /\ hresult = FreshValue(1)
    /\ hcache[hkey] = FreshValue(1)

(***************************************************************************)
(* Groups of calls: the batches that ContractQueries.get_loans hands to    *)
(* get_multiple_loan_info, which runs one batch on a ThreadPoolExecutor,   *)
(* and the batches that Web3ProviderPool.batch_call_contract works through *)
(* in its for loop.  The calls are numbered 1..gn in the order of the      *)
(* list, and a call is "todo", "running" or "done".                        *)
(***************************************************************************)
\* the group of call c: range(0, len(user_addresses), batch_size)
GroupOf(c) == ((c - 1) \div GroupSize) + 1

\* the calls of group g among n calls
GroupCalls(g, n) == {c \in 1..n : GroupOf(c) = g}

Running(st) == {c \in DOMAIN st : st[c] = "running"}

\* get_multiple_loan_info: executor.submit of the batch's calls on
\* ThreadPoolExecutor(max_workers=batch_size); a submitted call starts as
\* soon as a worker is free, in the order of submission
ThreadCanStart(st, c) ==
    /\ Cardinality(Running(st)) < GroupSize
    /\ \A d \in DOMAIN st : d < c => st[d] # "todo"

\* batch_call_contract: "for call in calls: result = call.call()", the next
\* call is made once the one before it returned
LoopCanStart(st, c) ==
    /\ Running(st) = {}
    /\ \A d \in DOMAIN st : d < c => st[d] = "done"

\* whether call c of the group being processed can start now
CanStart(mode, st, c) ==
    IF mode = "threads" THEN ThreadCanStart(st, c) ELSE LoopCanStart(st, c)

GroupsInitState ==
    /\ gmode = "idle"
    /\ gn = 0
    /\ gcur = 0
    /\ gstate = <<>>

\* get_loans reaches "for i in range(0, len(user_addresses), batch_size)"
\* (mode "threads"), or get_loan_addresses makes its batch calls through
\* batch_call_contract (mode "loop"), with n calls in all
GroupsStart(mode, n) ==
    /\ GroupsFrame
    /\ gmode = "idle"
    /\ gmode' = mode
    /\ gn' = n
    /\ gcur' = 1
    /\ gstate' = [c \in 1..n |-> "todo"]

\* a call of the current group starts
GroupCallStart(c) ==
    /\ GroupsFrame
    /\ gmode \in {"threads", "loop"}
    /\ c \in GroupCalls(gcur, gn)
    /\ gstate[c] = "todo"
    /\ CanStart(gmode, gstate, c)
    /\ gstate' = [gstate EXCEPT ![c] = "running"]
    /\ UNCHANGED <<gmode, gn, gcur>>

\* a running call returns or raises
GroupCallEnd(c) ==
    /\ GroupsFrame
    /\ gmode \in {"threads", "loop"}
    /\ c \in DOMAIN gstate
    /\ gstate[c] = "running"
    /\ gstate' = [gstate EXCEPT ![c] = "done"]
    /\ UNCHANGED <<gmode, gn, gcur>>

\* the group is complete: the with block of get_multiple_loan_info exits
\* after as_completed yielded every future, or batch_call_contract returns
\* its results; the caller goes on to the next group or is done
GroupEnd ==
    /\ GroupsFrame
    /\ gmode \in {"threads", "loop"}
    /\ \A c \in GroupCalls(gcur, gn) : gstate[c] = "done"
    /\ IF GroupCalls(gcur + 1, gn) = {}
       THEN gmode' = "finished" /\ UNCHANGED gcur
       ELSE gcur' = gcur + 1 /\ UNCHANGED gmode
    /\ UNCHANGED <<gn, gstate>>

GroupsNext ==
    \/ \E mode \in {"threads", "loop"}, n \in 1..MaxGroupCalls :
           GroupsStart(mode, n)
    \/ \E c \in 1..MaxGroupCalls : GroupCallStart(c)
    \/ \E c \in 1..MaxGroupCalls : GroupCallEnd(c)
    \/ GroupEnd

\* C28: no call of a later group has started while a call of an earlier
\* group is not done, and inside the group being processed the next call
\* to start does not wait for a running call of the group: it can start.
C28_GroupsSequentialCallsParallel ==
    gmode \in {"threads", "loop"} =>
        /\ \A c, d \in DOMAIN gstate :
              (GroupOf(c) < GroupOf(d) /\ gstate[d] # "todo")
                  => gstate[c] = "done"
        /\ \A c \in GroupCalls(gcur, gn) :
              (gstate[c] = "todo" /\ \A d \in 1..(c - 1) : gstate[d] # "todo")
                  => CanStart(gmode, gstate, c)

(***************************************************************************)
(* The cache files written outside class Cache: loan_info_cache.json and   *)
(* controller_tokens_cache.json by ContractQueries._save_loan_cache and    *)
(* _save_token_cache (utils/contract_queries.py), price_cache.json by      *)
(* PriceFetcher._save_cache (utils/price_fetcher.py).  A document is       *)
(* identified by the number of the update of the in-memory cache it holds. *)
(***************************************************************************)
\* the savers
Savers == {"loan", "token", "price"}

\* _save_cache writes a temp file and renames it; _save_loan_cache and
\* _save_token_cache open(cache_file, 'w')
UsesTempFile(saver) == saver = "price"

\* the threads that may be inside the saver at once: get_loan_info, which
\* calls _save_loan_cache, runs on the worker threads of
\* get_multiple_loan_info
Writers(saver) == IF saver = "loan" THEN {1, 2} ELSE {1}

QFileMissing == [kind |-> "missing", ver |-> 0]
\* an open(..., 'w') truncated the file, and the document is not, or not
\* wholly, written
QFilePartial == [kind |-> "partial", ver |-> 0]
QFileJson(v) == [kind |-> "json", ver |-> v]

QSaveInitState ==
    /\ qsaver = "loan"
    /\ qalive = FALSE
    /\ qver = 0
    /\ qfile = QFileMissing
    /\ qtmp = QFileMissing
    /\ qpc = [w \in {1, 2} |-> "idle"]
    /\ qcrashes = 0

\* the object that owns the cache is constructed: the cache is loaded, and a
\* file that does not parse leaves an empty cache
QConstruct(saver) ==
    /\ QSaveFrame
    /\ ~qalive
    /\ qcrashes = 0 \/ saver = qsaver
    /\ qsaver' = saver
    /\ qalive' = TRUE
    /\ qver' = IF qfile.kind = "json" THEN qfile.ver ELSE 0
    /\ UNCHANGED <<qfile, qtmp, qpc, qcrashes>>

\* thread w changes the in-memory cache and enters the saver
QUpdate(w) ==
    /\ QSaveFrame
    /\ qalive
    /\ w \in Writers(qsaver)
    /\ qpc[w] = "idle"
    /\ qver < MaxUpdates
    /\ qver' = qver + 1
    /\ qpc' = [qpc EXCEPT ![w] = "open"]
    /\ UNCHANGED <<qsaver, qalive, qfile, qtmp, qcrashes>>

\* with open(..., 'w'): the file that is opened is truncated
QOpen(w) ==
    /\ QSaveFrame
    /\ qalive
    /\ qpc[w] = "open"
    /\ IF UsesTempFile(qsaver)
       THEN qtmp' = QFilePartial /\ UNCHANGED qfile
       ELSE qfile' = QFilePartial /\ UNCHANGED qtmp
    /\ qpc' = [qpc EXCEPT ![w] = "write"]
    /\ UNCHANGED <<qsaver, qalive, qver, qcrashes>>

\* json.dump and the end of the with block: the document is complete unless
\* another thread has the same file open for writing
QWrite(w) ==
    /\ QSaveFrame
    /\ qalive
    /\ qpc[w] = "write"
    /\ LET alone == \A x \in {1, 2} \ {w} : qpc[x] # "write"
           doc == IF alone THEN {QFileJson(qver)}
                  ELSE {QFileJson(qver), QFilePartial}
       IN  \E d \in doc :
               IF UsesTempFile(qsaver)
               THEN /\ qtmp' = d
                    /\ qpc' = [qpc EXCEPT ![w] = "replace"]
                    /\ UNCHANGED qfile
               ELSE /\ qfile' = d
                    /\ qpc' = [qpc EXCEPT ![w] = "idle"]
                    /\ UNCHANGED qtmp
    /\ UNCHANGED <<qsaver, qalive, qver, qcrashes>>

\* os.replace(temp_file, self.cache_file)
QReplace(w) ==
    /\ QSaveFrame
    /\ qalive
    /\ qpc[w] = "replace"
    /\ qfile' = qtmp
    /\ qtmp' = QFileMissing
    /\ qpc' = [qpc EXCEPT ![w] = "idle"]
    /\ UNCHANGED <<qsaver, qalive, qver, qcrashes>>

\* the process dies, at any step; the files stay as they are
QCrash ==
    /\ QSaveFrame
    /\ qalive
    /\ qcrashes < MaxCrashes
    /\ qcrashes' = qcrashes + 1
    /\ qalive' = FALSE
    /\ qver' = 0
    /\ qpc' = [w \in {1, 2} |-> "idle"]
    /\ UNCHANGED <<qsaver, qfile, qtmp>>

QSaveNext ==
    \/ \E saver \in Savers : QConstruct(saver)
    \/ \E w \in {1, 2} : QUpdate(w)
    \/ \E w \in {1, 2} : QOpen(w)
    \/ \E w \in {1, 2} : QWrite(w)
    \/ \E w \in {1, 2} : QReplace(w)
    \/ QCrash

\* C29: whenever no save is in progress, after a crash during a save and
\* after saves of two threads included, the cache file of every saver is
\* absent or a complete document.
C29_CacheFileNeverPartial ==
    (~qalive \/ \A w \in {1, 2} : qpc[w] = "idle") =>
        qfile.kind \in {"missing", "json"}

(***************************************************************************)
(* The loan-info and controller-token caches of ContractQueries            *)
(* (utils/contract_queries.py) over time, in hours: the in-memory dict,    *)
(* the file with its one timestamp, and the lookups of get_loan_info and   *)
(* get_controller_tokens.  An entry is identified by its key and carries   *)
(* the hour at which it was fetched.                                       *)
(***************************************************************************)
\* "Check if cache is still valid (4 hours)" / "(12 hours)"
LoanTTLHours == 4
TokenTTLHours == 12
CacheTTL(kind) == IF kind = "loan" THEN LoanTTLHours ELSE TokenTTLHours

LcKeys == 1..2
\* the hour of fetching of an entry that is not in the cache
Absent == -1
LcEmpty == [k \in LcKeys |-> Absent]

NoCacheFile == [exists |-> FALSE, timestamp |-> 0, data |-> LcEmpty]
\* cache_data = {'timestamp': time.time(), 'data': self._..._cache}
SavedFile(t, mem) == [exists |-> TRUE, timestamp |-> t, data |-> mem]

\* _load_loan_cache / _load_token_cache:
\* cache_data.get('timestamp', 0) + (ttl * 3600) > time.time()
LoadQueriesCache(f, kind, t) ==
    IF f.exists /\ f.timestamp + CacheTTL(kind) > t THEN f.data ELSE LcEmpty

NoServe == [some |-> FALSE, key |-> 0, age |-> 0]

LcInitState ==
    /\ lcnow = 0
    /\ lckind = "loan"
    /\ lcalive = FALSE
    /\ lcmem = LcEmpty
    /\ lcfile = NoCacheFile
    /\ lcserved = NoServe

\* time passes
LcTick ==
    /\ LcFrame
    /\ lcnow < MaxHours
    /\ lcnow' = lcnow + 1
    /\ lcserved' = NoServe
    /\ UNCHANGED <<lckind, lcalive, lcmem, lcfile>>

\* ContractQueries.__init__: the cache is loaded from its file
LcConstruct(kind) ==
    /\ LcFrame
    /\ ~lcalive
    /\ lcfile.exists => kind = lckind
    /\ lckind' = kind
    /\ lcalive' = TRUE
    /\ lcmem' = LoadQueriesCache(lcfile, kind, lcnow)
    /\ lcserved' = NoServe
    /\ UNCHANGED <<lcnow, lcfile>>

\* get_loan_info / get_controller_tokens for key k: a cached entry is
\* returned; otherwise the entry is fetched, stored and the cache is saved
LcGet(k) ==
    /\ LcFrame
    /\ lcalive
    /\ IF lcmem[k] # Absent
       THEN /\ lcserved' = [some |-> TRUE, key |-> k, age |-> lcnow - lcmem[k]]
            /\ UNCHANGED <<lcmem, lcfile>>
       ELSE /\ lcmem' = [lcmem EXCEPT ![k] = lcnow]
            /\ lcfile' = SavedFile(lcnow, lcmem')
            /\ lcserved' = NoServe
    /\ UNCHANGED <<lcnow, lckind, lcalive>>

\* the process ends; the file stays
LcExit ==
    /\ LcFrame
    /\ lcalive
    /\ lcalive' = FALSE
    /\ lcmem' = LcEmpty
    /\ lcserved' = NoServe
    /\ UNCHANGED <<lcnow, lckind, lcfile>>

LcNext ==
    \/ LcTick
    \/ \E kind \in {"loan", "token"} : LcConstruct(kind)
    \/ \E k \in LcKeys : LcGet(k)
    \/ LcExit

\* C30: an entry that get_loan_info or get_controller_tokens returns from
\* the cache was fetched less than its TTL ago.
C30_NoEntryServedPastTTL ==
    lcserved.some => lcserved.age < CacheTTL(lckind)

(***************************************************************************)
(* PriceFetcher.get_multiple_token_prices (utils/price_fetcher.py): the    *)
(* worker threads that run get_token_price, each for its own token, cache  *)
(* what they found and save the cache through the one temp file            *)
(* price_cache.json.tmp.  Thread w looks up token w.                       *)
(***************************************************************************)
PfThreads == 1..NumPriceThreads

\* self.cache: the tokens under 'prices' and the tokens under 'failed'
PfCache(prices, failed) == [prices |-> prices, failed |-> failed]
PfEmptyCache == PfCache({}, {})

PfMissing == [kind |-> "missing", doc |-> PfEmptyCache]
\* a file that open(..., 'w') created or truncated
PfTruncated == [kind |-> "partial", doc |-> PfEmptyCache]
PfJson(c) == [kind |-> "json", doc |-> c]

\* _cache_price / _cache_failed_lookup: the entry of token w
PfCacheResult(c, w, found) ==
    IF found THEN [c EXCEPT !.prices = @ \cup {w}]
    ELSE [c EXCEPT !.failed = @ \cup {w}]

PfInitState ==
    /\ pfpc = [w \in PfThreads |-> "idle"]
    /\ pfmem = PfEmptyCache
    /\ pffile = PfMissing
    /\ pftmp = PfMissing
    /\ pffd = [w \in PfThreads |-> "none"]

\* get_token_price in thread w, up to the entry of _save_cache: the lookup
\* misses the cache, the sources are asked, and the price or the failed
\* lookup is put into self.cache
PfLookup(w, found) ==
    /\ PfFrame
    /\ pfpc[w] = "idle"
    /\ pfmem' = PfCacheResult(pfmem, w, found)
    /\ pfpc' = [pfpc EXCEPT ![w] = "open"]
    /\ UNCHANGED <<pffile, pftmp, pffd>>

\* _save_cache, open(temp_file, 'w'): the temp file is created or, when it
\* exists, truncated; the thread holds a handle on it
PfOpen(w) ==
    /\ PfFrame
    /\ pfpc[w] = "open"
    /\ pftmp' = PfTruncated
    /\ pffd' = [pffd EXCEPT ![w] = "tmp"]
    /\ pfpc' = [pfpc EXCEPT ![w] = "dump"]
    /\ UNCHANGED <<pfmem, pffile>>

\* _save_cache, json.dump(self.cache, f) and the end of the with block: the
\* document goes to the file the handle is on, which another thread's
\* os.replace may have renamed to the cache file or unlinked
PfDump(w) ==
    /\ PfFrame
    /\ pfpc[w] = "dump"
    /\ pftmp' = IF pffd[w] = "tmp" THEN PfJson(pfmem) ELSE pftmp
    /\ pffile' = IF pffd[w] = "file" THEN PfJson(pfmem) ELSE pffile
    /\ pffd' = [pffd EXCEPT ![w] = "none"]
    /\ pfpc' = [pfpc EXCEPT ![w] = "replace"]
    /\ UNCHANGED pfmem

\* _save_cache, os.replace(temp_file, self.cache_file): it raises
\* FileNotFoundError when the temp file is gone, and the except clause
\* prints the error
PfReplace(w) ==
    /\ PfFrame
    /\ pfpc[w] = "replace"
    /\ IF pftmp.kind = "missing"
       THEN /\ pfpc' = [pfpc EXCEPT ![w] = "failed"]
            /\ UNCHANGED <<pffile, pftmp, pffd>>
       ELSE /\ pffile' = pftmp
            /\ pftmp' = PfMissing
            /\ pffd' = [x \in PfThreads |->
                           IF pffd[x] = "tmp" THEN "file"
                           ELSE IF pffd[x] = "file" THEN "unlinked"
                           ELSE pffd[x]]
            /\ pfpc' = [pfpc EXCEPT ![w] = "saved"]
    /\ UNCHANGED pfmem

PfNext ==
    \/ \E w \in PfThreads, found \in BOOLEAN : PfLookup(w, found)
    \/ \E w \in PfThreads : PfOpen(w)
    \/ \E w \in PfThreads : PfDump(w)
    \/ \E w \in PfThreads : PfReplace(w)

\* C32: no save of a thread of get_multiple_token_prices fails, and once
\* all threads have finished the price cache on disk is a complete document
\* that holds everything that is cached in memory.
C32_SavesNeitherFailNorLost ==
    /\ \A w \in PfThreads : pfpc[w] # "failed"
    /\ (\A w \in PfThreads : pfpc[w] = "saved") => pffile = PfJson(pfmem)

(***************************************************************************)
(* PriceFetcher.get_token_price (utils/price_fetcher.py) for one token,    *)
(* called by one caller at a time.  Time is in hours; every save succeeds. *)
(***************************************************************************)
\* 'prices': 4 * 3600
PricesHours == 4
\* 'failed': 24 * 3600
FailedHours == 24

\* self.cache_duration[cache_type]
CacheDuration(cache_type) ==
    IF cache_type = "prices" THEN PricesHours ELSE FailedHours

\* _is_cache_valid
IsCacheValidAsFailed(timestamp, cache_type, t) ==
    t - timestamp < CacheDuration("failed")
IsCacheValid(timestamp, cache_type, t) ==
    t - timestamp < CacheDuration(cache_type)

\* dict.get(token_address) finds nothing
NoEntry == [kind |-> "none"]
\* the entry _cache_price writes
PriceEntry(price, t) == [kind |-> "price", price |-> price, timestamp |-> t]
\* the entry _cache_failed_lookup writes
FailedEntry(t) == [kind |-> "failed", timestamp |-> t]

\* {'prices': {}, 'failed': {}}
EmptyPriceCache == [prices |-> NoEntry, failed |-> NoEntry]

\* None, as the result of a source and of get_token_price
NoPrice == 0
\* what a price source returns
SourceResults == {NoPrice, 5, 10}
\* 'weight': 3 for 1inch, 'weight': 2 for coingecko
SourceWeights == <<3, 2>>

\* _get_cached_price
GetCachedPrice(c, t) ==
    IF c.prices.kind # "none" /\ IsCacheValid(c.prices.timestamp, "prices", t)
    THEN c.prices.price
    ELSE NoPrice

\* _is_failed_lookup
IsFailedLookup(c, t) ==
    c.failed.kind # "none" /\ IsCacheValid(c.failed.timestamp, "failed", t)

\* the price of the results: the weighted average of two, or the single one
ResultPrice(r) ==
    IF r[1] # NoPrice /\ r[2] # NoPrice
    THEN (r[1] * SourceWeights[1] + r[2] * SourceWeights[2])
             \div (SourceWeights[1] + SourceWeights[2])
    ELSE IF r[1] # NoPrice THEN r[1] ELSE r[2]

\* _clean_expired_cache
CleanExpiredCache(c, t) ==
    [prices |-> IF c.prices.kind # "none"
                   /\ ~IsCacheValid(c.prices.timestamp, "prices", t)
                THEN NoEntry ELSE c.prices,
     failed |-> IF c.failed.kind # "none"
                   /\ ~IsCacheValid(c.failed.timestamp, "failed", t)
                THEN NoEntry ELSE c.failed]

NoLookup == [made |-> FALSE]
Lookup(ret, invoked) ==
    [made |-> TRUE, at |-> plnow, ret |-> ret, invoked |-> invoked,
     failedAt |-> plfailedAt, pricedAt |-> plpricedAt, priced |-> plpriced]

\* PriceFetcher.__init__ over an empty cache directory
PlInitState ==
    /\ plnow = 0
    /\ plcache = EmptyPriceCache
    /\ plfile = EmptyPriceCache
    /\ plfailedAt = {}
    /\ plpricedAt = {}
    /\ plpriced = NoPrice
    /\ pllast = NoLookup

\* an hour passes
PlTick ==
    /\ PlFrame
    /\ plnow < MaxPriceHours
    /\ plnow' = plnow + 1
    /\ UNCHANGED <<plcache, plfile, plfailedAt, plpricedAt, plpriced, pllast>>

\* the process ends and a new PriceFetcher is constructed: _load_cache, then
\* _clean_expired_cache, which saves when it removed something
PlRestart ==
    /\ PlFrame
    /\ plcache' = CleanExpiredCache(plfile, plnow)
    /\ plfile' = plcache'
    /\ pllast' = NoLookup
    /\ UNCHANGED <<plnow, plfailedAt, plpricedAt, plpriced>>

\* get_token_price, up to its return
GetTokenPrice ==
    /\ PlFrame
    /\ UNCHANGED plnow
    /\ IF GetCachedPrice(plcache, plnow) # NoPrice
       THEN /\ pllast' = Lookup(GetCachedPrice(plcache, plnow), FALSE)
            /\ UNCHANGED <<plcache, plfile, plfailedAt, plpricedAt, plpriced>>
       ELSE IF IsFailedLookup(plcache, plnow)
       THEN /\ pllast' = Lookup(NoPrice, FALSE)
            /\ UNCHANGED <<plcache, plfile, plfailedAt, plpricedAt, plpriced>>
       ELSE \E r \in [1..2 -> SourceResults] :
              IF r[1] # NoPrice \/ r[2] # NoPrice
              THEN /\ plcache' = [plcache EXCEPT
                                     !.prices = PriceEntry(ResultPrice(r), plnow)]
                   /\ plfile' = plcache'
                   /\ plpricedAt' = {plnow}
                   /\ plpriced' = ResultPrice(r)
                   /\ pllast' = Lookup(ResultPrice(r), TRUE)
                   /\ UNCHANGED plfailedAt
              ELSE /\ plcache' = [plcache EXCEPT !.failed = FailedEntry(plnow)]
                   /\ plfile' = plcache'
                   /\ plfailedAt' = {plnow}
                   /\ pllast' = Lookup(NoPrice, TRUE)
                   /\ UNCHANGED <<plpricedAt, plpriced>>

PlNext ==
    \/ PlTick
    \/ PlRestart
    \/ GetTokenPrice

\* C39: a lookup made less than 24 hours after a lookup of the token whose
\* sources all failed returns None and invokes no source; a lookup made less
\* than 4 hours after a lookup that got a price from the sources returns
\* that price from the cache; and no price is returned from the cache 4
\* hours or longer after the sources gave it.
C39_FailedFor24PriceFor4 ==
    pllast.made =>
        /\ \A f \in pllast.failedAt :
              pllast.at - f < 24 => (pllast.ret = NoPrice /\ ~pllast.invoked)
        /\ \A g \in pllast.pricedAt :
              pllast.at - g < 4 => (pllast.ret = pllast.priced /\ ~pllast.invoked)
        /\ (pllast.ret # NoPrice /\ ~pllast.invoked) =>
              \E g \in pllast.pricedAt : pllast.at - g < 4

\* C39, the case: a lookup 23 hours after one whose sources all failed, by
\* a PriceFetcher that holds the failed lookup, returned None without
\* asking a source
C39_Witness ==
    /\ pllast.made
    /\ pllast.failedAt = {pllast.at - 23}
    /\ plcache.failed = FailedEntry(pllast.at - 23)
    /\ pllast.ret = NoPrice
    /\ ~pllast.invoked

(***************************************************************************)
(* The specifications, one per component.                                  *)
(***************************************************************************)
\* the variables of a component while another component runs
CacheIdle ==
    /\ CacheInitState
    /\ file = Missing

LimIdle ==
    /\ LimInitState
    /\ ltime = 0

RetryIdle == RetryInitState
EpIdle == EpInitState /\ provider = 0

InitCache ==
    /\ CacheInitState
    /\ AggInitState
    /\ LimIdle
    /\ RetryIdle
    /\ EpIdle
    /\ BatchInitState
    /\ DiscInitState
    /\ PoolInitState
    /\ FeedInitState
    /\ LoansInitState
    /\ CallInitState
    /\ GroupsInitState
    /\ QSaveInitState
    /\ LcInitState
    /\ PfInitState
    /\ PlInitState

InitAgg ==
    /\ CacheIdle
    /\ AggInitState
    /\ LimIdle
    /\ RetryIdle
    /\ EpIdle
    /\ BatchInitState
    /\ DiscInitState
    /\ PoolInitState
    /\ FeedInitState
    /\ LoansInitState
    /\ CallInitState
    /\ GroupsInitState
    /\ QSaveInitState
    /\ LcInitState
    /\ PfInitState
    /\ PlInitState

InitLimiter ==
    /\ CacheIdle
    /\ AggInitState
    /\ LimInitState
    /\ RetryIdle
    /\ EpIdle
    /\ BatchInitState
    /\ DiscInitState
    /\ PoolInitState
    /\ FeedInitState
    /\ LoansInitState
    /\ CallInitState
    /\ GroupsInitState
    /\ QSaveInitState
    /\ LcInitState
    /\ PfInitState
    /\ PlInitState

InitRetry ==
    /\ CacheIdle
    /\ AggInitState
    /\ LimIdle
    /\ RetryInitState
    /\ EpIdle
    /\ BatchInitState
    /\ DiscInitState
    /\ PoolInitState
    /\ FeedInitState
    /\ LoansInitState
    /\ CallInitState
    /\ GroupsInitState
    /\ QSaveInitState
    /\ LcInitState
    /\ PfInitState
    /\ PlInitState

InitEndpoint ==
    /\ CacheIdle
    /\ AggInitState
    /\ LimIdle
    /\ RetryIdle
    /\ EpInitState
    /\ BatchInitState
    /\ DiscInitState
    /\ PoolInitState
    /\ FeedInitState
    /\ LoansInitState
    /\ CallInitState
    /\ GroupsInitState
    /\ QSaveInitState
    /\ LcInitState
    /\ PfInitState
    /\ PlInitState

InitBatch ==
    /\ CacheIdle
    /\ AggInitState
    /\ LimIdle
    /\ RetryIdle
    /\ EpIdle
    /\ BatchInitState
    /\ DiscInitState
    /\ PoolInitState
    /\ FeedInitState
    /\ LoansInitState
    /\ CallInitState
    /\ GroupsInitState
    /\ QSaveInitState
    /\ LcInitState
    /\ PfInitState
    /\ PlInitState

InitDiscover ==
    /\ CacheIdle
    /\ AggInitState
    /\ LimIdle
    /\ RetryIdle
    /\ EpIdle
    /\ BatchInitState
    /\ DiscInitState
    /\ PoolInitState
    /\ FeedInitState
    /\ LoansInitState
    /\ CallInitState
    /\ GroupsInitState
    /\ QSaveInitState
    /\ LcInitState
    /\ PfInitState
    /\ PlInitState

InitPool ==
    /\ CacheIdle
    /\ AggInitState
    /\ LimIdle
    /\ RetryIdle
    /\ EpIdle
    /\ BatchInitState
    /\ DiscInitState
    /\ PoolInitState
    /\ FeedInitState
    /\ LoansInitState
    /\ CallInitState
    /\ GroupsInitState
    /\ QSaveInitState
    /\ LcInitState
    /\ PfInitState
    /\ PlInitState

InitFeeds ==
    /\ CacheIdle
    /\ AggInitState
    /\ LimIdle
    /\ RetryIdle
    /\ EpIdle
    /\ BatchInitState
    /\ DiscInitState
    /\ PoolInitState
    /\ FeedInitState
    /\ LoansInitState
    /\ CallInitState
    /\ GroupsInitState
    /\ QSaveInitState
    /\ LcInitState
    /\ PfInitState
    /\ PlInitState

InitLoans ==
    /\ CacheIdle
    /\ AggInitState
    /\ LimIdle
    /\ RetryIdle
    /\ EpIdle
    /\ BatchInitState
    /\ DiscInitState
    /\ PoolInitState
    /\ FeedInitState
    /\ LoansInitState
    /\ CallInitState
    /\ GroupsInitState
    /\ QSaveInitState
    /\ LcInitState
    /\ PfInitState
    /\ PlInitState

InitCall ==
    /\ CacheIdle
    /\ AggInitState
    /\ LimIdle
    /\ RetryIdle
    /\ EpIdle
    /\ BatchInitState
    /\ DiscInitState
    /\ PoolInitState
    /\ FeedInitState
    /\ LoansInitState
    /\ CallInitState
    /\ GroupsInitState
    /\ QSaveInitState
    /\ LcInitState
    /\ PfInitState
    /\ PlInitState

InitGroups ==
    /\ CacheIdle
    /\ AggInitState
    /\ LimIdle
    /\ RetryIdle
    /\ EpIdle
    /\ BatchInitState
    /\ DiscInitState
    /\ PoolInitState
    /\ FeedInitState
    /\ LoansInitState
    /\ CallInitState
    /\ GroupsInitState
    /\ QSaveInitState
    /\ LcInitState
    /\ PfInitState
    /\ PlInitState

InitQSave ==
    /\ CacheIdle
    /\ AggInitState
    /\ LimIdle
    /\ RetryIdle
    /\ EpIdle
    /\ BatchInitState
    /\ DiscInitState
    /\ PoolInitState
    /\ FeedInitState
    /\ LoansInitState
    /\ CallInitState
    /\ GroupsInitState
    /\ QSaveInitState
    /\ LcInitState
    /\ PfInitState
    /\ PlInitState

InitLc ==
    /\ CacheIdle
    /\ AggInitState
    /\ LimIdle
    /\ RetryIdle
    /\ EpIdle
    /\ BatchInitState
    /\ DiscInitState
    /\ PoolInitState
    /\ FeedInitState
    /\ LoansInitState
    /\ CallInitState
    /\ GroupsInitState
    /\ QSaveInitState
    /\ LcInitState
    /\ PfInitState
    /\ PlInitState

InitPf ==
    /\ CacheIdle
    /\ AggInitState
    /\ LimIdle
    /\ RetryIdle
    /\ EpIdle
    /\ BatchInitState
    /\ DiscInitState
    /\ PoolInitState
    /\ FeedInitState
    /\ LoansInitState
    /\ CallInitState
    /\ GroupsInitState
    /\ QSaveInitState
    /\ LcInitState
    /\ PfInitState
    /\ PlInitState

InitPl ==
    /\ CacheIdle
    /\ AggInitState
    /\ LimIdle
    /\ RetryIdle
    /\ EpIdle
    /\ BatchInitState
    /\ DiscInitState
    /\ PoolInitState
    /\ FeedInitState
    /\ LoansInitState
    /\ CallInitState
    /\ GroupsInitState
    /\ QSaveInitState
    /\ LcInitState
    /\ PfInitState
    /\ PlInitState

SpecCache == InitCache /\ [][CacheNext]_vars

SpecCacheFault == InitCache /\ [][CacheFaultNext]_vars

SpecAgg == InitAgg /\ [][AggNext]_vars

SpecLimiter == InitLimiter /\ [][LimNext]_vars

SpecRetry == InitRetry /\ [][RetryNext]_vars

SpecEndpoint == InitEndpoint /\ [][EpNext]_vars

SpecBackoff == InitEndpoint /\ [][BackoffNext]_vars

SpecBatch == InitBatch /\ [][BatchNext]_vars

SpecDiscover == InitDiscover /\ [][DiscNext]_vars

SpecPool == InitPool /\ [][PoolNext]_vars

SpecPoolCall == InitPool /\ [][PoolCallNext]_vars

SpecFeeds == InitFeeds /\ [][FeedsNext]_vars

SpecLoans == InitLoans /\ [][LoansNext]_vars

SpecCall == InitCall /\ [][CallNext]_vars

SpecGroups == InitGroups /\ [][GroupsNext]_vars

SpecQSave == InitQSave /\ [][QSaveNext]_vars

SpecLc == InitLc /\ [][LcNext]_vars

SpecPf == InitPf /\ [][PfNext]_vars

SpecPl == InitPl /\ [][PlNext]_vars

====
